---------------------------- MODULE Spec2Model ----------------------------
(***************************************************************************)
(* A model of labyrintuine: the maze text validator (file_loader.rs), the  *)
(* map constructor (map.rs), the backtracking recorder and the animation   *)
(* player (pathfinding.rs), and the part of the run loop that drives them  *)
(* (app.rs, ui.rs, events.rs).                                             *)
(*                                                                         *)
(* A text is a sequence of one-character strings.  Grid coordinates are    *)
(* 0-based as in the source; TLA+ sequences are 1-based, so cell (col,row) *)
(* of data is data[row + 1][col + 1].                                      *)
(***************************************************************************)
EXTENDS Integers, Sequences, FiniteSets, TLC

VARIABLES
    contents,          \* the text read from the map file (app.rs:104)
    verdict,           \* result of the last parse_file_contents call, or "pending"
    map_data,          \* app.map.data, the rows of the current map
    pc,                \* position of the program
    stack,             \* call stack of record_animation_steps
    initial_path,      \* the recorder's current_path argument (ui.rs:307)
    steps,             \* animation_manager.steps
    current_index,     \* animation_manager.current_index
    current_path,      \* animation_manager.current_path
    elapsed,           \* animation_manager.last_update_time.elapsed(), saturated
    fired,             \* number of update calls that fired since the last reset
    map_file,          \* the argument of App::new_with_map (app.rs:99)
    exit,              \* app.exit
    screen,            \* app.screen
    map_key,           \* app.map.key, the name of the current map
    maps,              \* app.maps
    viewport_map,      \* app.viewport_map: <<>> for None, <<m>> for Some(m)
    viewport_offset,   \* app.viewport_offset
    viewport_height,   \* app.viewport_height
    maze_coords,       \* argument of transform_maze_to_screen_coords
    screen_coords      \* result of transform_maze_to_screen_coords

\* the fields of App next to map.data and the animation manager
app_fields == <<exit, screen, map_key, maps, viewport_map, viewport_offset,
                viewport_height>>

\* argument and result of the coordinate transform
transform_io == <<maze_coords, screen_coords>>

vars == <<contents, verdict, map_data, pc, stack, initial_path, steps,
          current_index, current_path, elapsed, fired, map_file, app_fields,
          transform_io>>

---------------------------------------------------------------------------
(* Bounds of the model *)

\* number of single-character edits applied to a base maze text
MaxEdits == 2

\* the elapsed time is followed up to this many milliseconds; update() only
\* compares it with ANIMATION_FRAME_DELAY_MS, so longer waits act the same
MaxElapsed == 300

\* number of steps pushed to a player driven on its own
MaxSteps == 4

(* Constants of the program *)

\* pathfinding.rs:15
ANIMATION_FRAME_DELAY_MS == 200

\* events.rs:20, the timeout of event::poll
POLL_TIMEOUT_MS == 100

---------------------------------------------------------------------------
(* Characters and texts *)

NL == "\n"
SP == " "

\* the characters of the input texts the model ranges over
Alphabet == {"1", "2", "3", "4", SP, NL}

Last(s) == s[Len(s)]
Front(s) == SubSeq(s, 1, Len(s) - 1)

\* char::is_whitespace on the characters of Alphabet
IsWhitespace(c) == c \in {SP, NL}

\* str::trim: strips leading and trailing whitespace
RECURSIVE TrimStart(_)
TrimStart(s) ==
    IF s # <<>> /\ IsWhitespace(Head(s)) THEN TrimStart(Tail(s)) ELSE s

RECURSIVE TrimEnd(_)
TrimEnd(s) ==
    IF s # <<>> /\ IsWhitespace(Last(s)) THEN TrimEnd(Front(s)) ELSE s

Trim(s) == TrimEnd(TrimStart(s))

\* str::lines: the text split at every "\n"; a final line needs no
\* terminator, so an empty piece after the last "\n" is no line.
\* ends holds, for every line, the position just past its last character
Lines(s) ==
    LET ends == { i \in 1..Len(s) : s[i] = NL }
                  \cup (IF s # <<>> /\ Last(s) # NL THEN {Len(s) + 1} ELSE {})
        EndOf(k) == CHOOSE e \in ends : Cardinality({ x \in ends : x < e }) = k - 1
        StartOf(k) == IF k = 1 THEN 1 ELSE EndOf(k - 1) + 1
    IN  [k \in 1..Cardinality(ends) |-> SubSeq(s, StartOf(k), EndOf(k) - 1)]

---------------------------------------------------------------------------
(* file_loader.rs: parse_file_contents *)

IsValidByte(byte) == byte \in {"1", "2", "3", "4"}

\* number of '1' bytes in a line
RECURSIVE CountEntries(_)
CountEntries(line) ==
    IF line = <<>> THEN 0
    ELSE (IF Head(line) = "1" THEN 1 ELSE 0) + CountEntries(Tail(line))

\* the first loop over the lines, from line i on with the counter so far:
\* [ok |-> FALSE] on an early return, else the final entry_point_counter
RECURSIVE ValidateLines(_, _, _, _)
ValidateLines(lines, i, entry_point_counter, expected_width) ==
    IF i > Len(lines) THEN [ok |-> TRUE, counter |-> entry_point_counter]
    ELSE LET line == lines[i]
             counter == entry_point_counter + CountEntries(line)
         IN  IF Len(line) # expected_width
             THEN [ok |-> FALSE, counter |-> entry_point_counter]
             ELSE IF ~ \A k \in 1..Len(line) : IsValidByte(line[k])
             THEN [ok |-> FALSE, counter |-> entry_point_counter]
             ELSE IF counter > 1
             THEN [ok |-> FALSE, counter |-> counter]
             ELSE ValidateLines(lines, i + 1, counter, expected_width)

\* is_edge without the test of the last column
is_edge_NoLastColumn(row_idx, col_idx, last_row_idx, last_col_idx) ==
    \/ row_idx = 0
    \/ row_idx = last_row_idx
    \/ col_idx = 0

is_edge(row_idx, col_idx, last_row_idx, last_col_idx) ==
    \/ row_idx = 0
    \/ row_idx = last_row_idx
    \/ col_idx = 0
    \/ col_idx = last_col_idx

\* the second loop without the interior check
CellAllowed_InteriorExit(byte, edge) ==
    IF edge THEN byte \in {"2", "4"} ELSE TRUE

\* the second loop allowing only walls on the edge
CellAllowed_EdgeWallOnly(byte, edge) ==
    IF edge THEN byte = "2" ELSE byte # "4"

\* the body of the second loop: FALSE where the loop returns false
CellAllowed(byte, edge) ==
    IF edge THEN byte \in {"2", "4"} ELSE byte # "4"

CheckBoundary(lines, expected_width) ==
    LET last_row_idx == Len(lines) - 1
        last_col_idx == expected_width - 1
    IN  \A row_idx \in 0..last_row_idx :
            \A col_idx \in 0..(Len(lines[row_idx + 1]) - 1) :
                CellAllowed(lines[row_idx + 1][col_idx + 1],
                            is_edge(row_idx, col_idx, last_row_idx, last_col_idx))

parse_file_contents(input) ==
    LET lines == Lines(input) IN
    IF Len(lines) < 3 THEN FALSE
    ELSE LET expected_width == Len(lines[1]) IN
         IF expected_width < 3 THEN FALSE
         ELSE LET scan == ValidateLines(lines, 1, 0, expected_width) IN
              IF ~scan.ok THEN FALSE
              ELSE IF scan.counter # 1 THEN FALSE
              ELSE CheckBoundary(lines, expected_width)

---------------------------------------------------------------------------
(* The input texts *)

\* the decimal digits of n as a row of characters: Row(2134) = "2134"
RECURSIVE Row(_)
Row(n) ==
    IF n < 10 THEN <<ToString(n)>> ELSE Append(Row(n \div 10), ToString(n % 10))

\* rows joined by "\n"
RECURSIVE Join(_)
Join(rows) ==
    IF rows = <<>> THEN <<>>
    ELSE IF Len(rows) = 1 THEN rows[1]
    ELSE rows[1] \o <<NL>> \o Join(Tail(rows))

Maze(rows) == Join([i \in 1..Len(rows) |-> Row(rows[i])])

\* the mazes of the repository's tests (file_loader.rs:130, file_loader.rs:136)
\* and the 3x3 and 4x4 mazes
BaseTexts ==
    { Maze(<<222, 212, 222>>),
      Maze(<<2222, 2134, 2222>>),
      Maze(<<2242, 2132, 2332, 2222>>),
      Maze(<<22224, 21332, 23332, 22222>>) }

\* the texts one edit away from s: a character replaced anywhere, or a
\* character put before the first or after the last one
Edits(s) ==
    { [s EXCEPT ![i] = c] : i \in 1..Len(s), c \in Alphabet }
    \cup { <<c>> \o s : c \in Alphabet }
    \cup { Append(s, c) : c \in Alphabet }

\* s itself and, when a further edit is allowed, the texts one edit away
EditsUpTo(s, allowed) == IF allowed THEN {s} \cup Edits(s) ELSE {s}

\* contents is a base text changed by at most MaxEdits edits
InputContents ==
    \E b \in BaseTexts :
      \E t1 \in EditsUpTo(b, MaxEdits >= 1) :
        \E t2 \in EditsUpTo(t1, MaxEdits >= 2) :
          \E t3 \in EditsUpTo(t2, MaxEdits >= 3) :
            contents = t3

---------------------------------------------------------------------------
(* File names and the state before an App is built *)

\* a file name is a text; these are the pieces the names are made of
Stem == <<"t", "e", "s", "t">>
Extension == <<".", "l", "a", "b", "m", "a", "p">>
NameParts ==
    { Stem, Extension, <<".", "t", "x", "t">>, <<".", "b", "a", "c", "k", "u", "p">>,
      <<"l", "a", "b">> }

\* the longest file name, counted in pieces
MaxNameParts == 3

\* the texts made of at most n pieces, at least one
RECURSIVE Concats(_)
Concats(n) ==
    IF n = 1 THEN NameParts
    ELSE LET shorter == Concats(n - 1) IN
         shorter \cup { a \o b : a \in shorter, b \in NameParts }

\* "test.labmap", "test.txt", "test.backup.labmap", "test.labmap.txt", ...
FileNames == Concats(MaxNameParts)

\* new_with_map(None)
NoFile == [given |-> FALSE, name |-> <<>>, readable |-> FALSE]

\* new_with_map(Some(path)) on a readable file named "test.labmap"
TestFile == [given |-> TRUE, name |-> Stem \o Extension, readable |-> TRUE]

\* no App has been built
NoApp ==
    /\ exit = FALSE
    /\ screen = <<"none">>
    /\ map_key = <<>>
    /\ maps = <<>>
    /\ viewport_map = <<>>
    /\ viewport_offset = 0
    /\ viewport_height = 0

\* the transform has not been called
NoTransform ==
    /\ maze_coords = <<>>
    /\ screen_coords = [ok |-> FALSE, value |-> <<>>]

---------------------------------------------------------------------------
(* The validator applied to a text on its own *)

InitParse ==
    /\ InputContents
    /\ verdict = "pending"
    /\ map_data = <<>>
    /\ pc = "parse"
    /\ stack = <<>>
    /\ initial_path = <<>>
    /\ steps = <<>>
    /\ current_index = 0
    /\ current_path = <<>>
    /\ elapsed = 0
    /\ fired = 0
    /\ map_file = NoFile
    /\ NoApp
    /\ NoTransform

ParseFileContents ==
    /\ pc = "parse"
    /\ verdict' = parse_file_contents(contents)
    /\ pc' = "parsed"
    /\ UNCHANGED <<map_file, app_fields, transform_io, contents, map_data, stack, initial_path, steps,
                   current_index, current_path, elapsed, fired>>

NextParse == ParseFileContents

SpecParse == InitParse /\ [][NextParse]_vars

---------------------------------------------------------------------------
(* map.rs: Map::new *)

\* the rows of the map built from a text: data.lines(), line by line
MapData(data) == Lines(data)

\* str::rfind: the 0-based start of the last occurrence of pat in s, or -1
RFind_Leftmost(s, pat) ==
    LET hits == { i \in 0..(Len(s) - Len(pat)) :
                    SubSeq(s, i + 1, i + Len(pat)) = pat }
    IN  IF hits = {} THEN -1
        ELSE CHOOSE i \in hits : \A j \in hits : i <= j

RFind(s, pat) ==
    LET hits == { i \in 0..(Len(s) - Len(pat)) :
                    SubSeq(s, i + 1, i + Len(pat)) = pat }
    IN  IF hits = {} THEN -1
        ELSE CHOOSE i \in hits : \A j \in hits : j <= i

\* Map::new(key, data): the rows are the lines of data, the name is key cut
\* at the last ".labmap"; an error when key holds no ".labmap"
MapNew(key, data) ==
    LET at == RFind(key, Extension) IN
    IF at = -1
    THEN [ok |-> FALSE, key |-> <<>>, data |-> <<>>]
    ELSE [ok |-> TRUE, key |-> SubSeq(key, 1, at), data |-> MapData(data)]

\* the rows of a maze given as groups of digits: map.rs:72-95
RowOf(groups) ==
    IF Len(groups) = 1 THEN Row(groups[1])
    ELSE Row(groups[1]) \o Row(groups[2]) \o Row(groups[3]) \o Row(groups[4])

\* the default map with an Exit inside the grid, beside the Entry
DEFAULT_MAP_InnerExit ==
    LET rows == <<
       <<22222222, 22222222, 22222222, 2222222>>,
       <<21433333, 33222223, 33333222, 2223332>>,
       <<22322222, 23332223, 23223232, 2223232>>,
       <<22333332, 23232223, 23223232, 2223232>>,
       <<22323232, 23232223, 23223232, 2222232>>,
       <<22323232, 23333333, 23223333, 3333232>>,
       <<22323232, 22222222, 23222222, 2222232>>,
       <<22323233, 33333332, 23333333, 3332232>>,
       <<22322222, 22222232, 22222222, 2232232>>,
       <<22323333, 33322233, 33332233, 2232232>>,
       <<22323222, 32322222, 23232223, 2232232>>,
       <<22323222, 32333332, 23232223, 2232232>>,
       <<22323222, 32222232, 23232223, 3332232>>,
       <<22323222, 33332232, 23232223, 2232232>>,
       <<22323222, 22222232, 23232223, 2232232>>,
       <<22323333, 33333232, 23232223, 2232232>>,
       <<22322222, 22222232, 23232223, 2232232>>,
       <<22333333, 32222232, 23232223, 2232232>>,
       <<22222222, 32222232, 23232223, 2232232>>,
       <<23333333, 33333332, 23222223, 2233334>>,
       <<22222222, 22222222, 22222222, 2222222>> >>
    IN  Join([i \in 1..Len(rows) |-> RowOf(rows[i])])

DEFAULT_MAP ==
    LET rows == <<
       <<22222222, 22222222, 22222222, 2222222>>,
       <<21333333, 33222223, 33333222, 2223332>>,
       <<22322222, 23332223, 23223232, 2223232>>,
       <<22333332, 23232223, 23223232, 2223232>>,
       <<22323232, 23232223, 23223232, 2222232>>,
       <<22323232, 23333333, 23223333, 3333232>>,
       <<22323232, 22222222, 23222222, 2222232>>,
       <<22323233, 33333332, 23333333, 3332232>>,
       <<22322222, 22222232, 22222222, 2232232>>,
       <<22323333, 33322233, 33332233, 2232232>>,
       <<22323222, 32322222, 23232223, 2232232>>,
       <<22323222, 32333332, 23232223, 2232232>>,
       <<22323222, 32222232, 23232223, 3332232>>,
       <<22323222, 33332232, 23232223, 2232232>>,
       <<22323222, 22222232, 23232223, 2232232>>,
       <<22323333, 33333232, 23232223, 2232232>>,
       <<22322222, 22222232, 23232223, 2232232>>,
       <<22333333, 32222232, 23232223, 2232232>>,
       <<22222222, 32222232, 23232223, 2232232>>,
       <<23333333, 33333332, 23222223, 2233334>>,
       <<22222222, 22222222, 22222222, 2222222>> >>
    IN  Join([i \in 1..Len(rows) |-> RowOf(rows[i])])

\* Map::default()
DefaultMap == MapNew(<<"D", "e", "f", "a", "u", "l", "t">> \o Extension, DEFAULT_MAP)

---------------------------------------------------------------------------
(* pathfinding.rs: record_animation_steps *)

Add(x, y) == [kind |-> "Add", x |-> x, y |-> y]
Remove(x, y) == [kind |-> "Remove", x |-> x, y |-> y]

\* the directions array with west written twice
directions_NoEast == << <<0, -1>>, <<0, 1>>, <<-1, 0>>, <<-1, 0>> >>

\* the fourth direction repeating the third: East in place of West
directions_EastTwice == << <<0, -1>>, <<0, 1>>, <<1, 0>>, <<1, 0>> >>

\* the order South, North, East, West
directions_SouthFirst == << <<0, 1>>, <<0, -1>>, <<1, 0>>, <<-1, 0>> >>

\* the directions array: north, south, east, west as (dx, dy)
directions == << <<0, -1>>, <<0, 1>>, <<1, 0>>, <<-1, 0>> >>

Contains(path, pos) == \E i \in 1..Len(path) : path[i] = pos

\* map_data.get(y) and then the x-th cell of the row; "none" where either
\* get returns None
CellAt(data, x, y) ==
    IF y < 0 \/ y >= Len(data) THEN "none"
    ELSE IF x < 0 \/ x >= Len(data[y + 1]) THEN "none"
    ELSE data[y + 1][x + 1]

\* the exit check with column and row exchanged
IsExitCell_Swapped(data, start) == CellAt(data, start[2], start[1]) = "4"

\* the check on lines 149-151: the start cell is an exit
IsExitCell(data, start) == CellAt(data, start[1], start[2]) = "4"

\* the neighbour of start in direction d
Neighbour(start, d) == <<start[1] + directions[d][1], start[2] + directions[d][2]>>

\* the loop body entering only '3' cells
Explores_OpenOnly(data, path, start, d) ==
    LET new_pos == <<start[1] + directions[d][1], start[2] + directions[d][2]>> IN
      /\ new_pos[1] >= 0
      /\ new_pos[2] >= 0
      /\ ~Contains(path, new_pos)
      /\ CellAt(data, new_pos[1], new_pos[2]) = "3"

\* the loop body entering a cell whatever its symbol
Explores_AnySymbol(data, path, start, d) ==
    LET new_pos == <<start[1] + directions[d][1], start[2] + directions[d][2]>> IN
      /\ new_pos[1] >= 0
      /\ new_pos[2] >= 0
      /\ ~Contains(path, new_pos)
      /\ CellAt(data, new_pos[1], new_pos[2]) # "none"

\* the loop body without the look-up of the position in the current path
Explores_Revisits(data, path, start, d) ==
    LET new_pos == <<start[1] + directions[d][1], start[2] + directions[d][2]>> IN
      /\ new_pos[1] >= 0
      /\ new_pos[2] >= 0
      /\ CellAt(data, new_pos[1], new_pos[2]) \in {"3", "4"}

\* one pass of the loop body for direction d: TRUE when it recurses.
\* checked_add_signed gives None below zero; a position already in the
\* current path is skipped; only '3' and '4' cells are entered.
Explores(data, path, start, d) ==
    LET new_pos == Neighbour(start, d) IN
      /\ new_pos[1] >= 0
      /\ new_pos[2] >= 0
      /\ ~Contains(path, new_pos)
      /\ CellAt(data, new_pos[1], new_pos[2]) \in {"3", "4"}

\* the directions from d on in which the loop recurses
OpenDirections(data, path, start, d) ==
    { e \in d..Len(directions) : Explores(data, path, start, e) }

Min(S) == CHOOSE m \in S : \A n \in S : m <= n

\* a frame of the call stack: the start argument and the index of the next
\* direction the loop will try
Frame(start, dir) == [start |-> start, dir |-> dir]

Top == stack[Len(stack)]

\* the exit branch returning without recording the Remove
RecordExit_NoRemove ==
    /\ pc = "record"
    /\ stack # <<>>
    /\ CellAt(map_data, stack[Len(stack)].start[1], stack[Len(stack)].start[2]) = "4"
    /\ initial_path' = Front(initial_path)
    /\ stack' = Front(stack)
    /\ UNCHANGED <<map_file, app_fields, transform_io, contents, verdict, map_data, pc, steps, current_index,
                   current_path, elapsed, fired>>

\* the exit branch recording the Remove of the caller's cell
RecordExit_RemoveCaller ==
    /\ pc = "record"
    /\ stack # <<>>
    /\ CellAt(map_data, stack[Len(stack)].start[1], stack[Len(stack)].start[2]) = "4"
    /\ initial_path' = Front(initial_path)
    /\ LET who == IF Len(stack) > 1 THEN stack[Len(stack) - 1].start
                  ELSE stack[Len(stack)].start
       IN  steps' = Append(steps, Remove(who[1], who[2]))
    /\ stack' = Front(stack)
    /\ UNCHANGED <<map_file, app_fields, transform_io, contents, verdict, map_data, pc, current_index,
                   current_path, elapsed, fired>>

\* the call at the top finds an exit: lines 149-156
RecordExit ==
    /\ pc = "record"
    /\ stack # <<>>
    /\ IsExitCell(map_data, Top.start)
    /\ initial_path' = Front(initial_path)
    /\ steps' = Append(steps, Remove(Top.start[1], Top.start[2]))
    /\ stack' = Front(stack)
    /\ UNCHANGED <<map_file, app_fields, transform_io, contents, verdict, map_data, pc, current_index,
                   current_path, elapsed, fired>>

\* the loop of the call at the top reaches a direction to explore and calls
\* itself; the callee pushes its start and records the Add: lines 163-185, 144-146
RecordEnter ==
    /\ pc = "record"
    /\ stack # <<>>
    /\ ~IsExitCell(map_data, Top.start)
    /\ OpenDirections(map_data, initial_path, Top.start, Top.dir) # {}
    /\ LET d == Min(OpenDirections(map_data, initial_path, Top.start, Top.dir))
           new_pos == Neighbour(Top.start, d)
       IN  /\ stack' = Append([stack EXCEPT ![Len(stack)].dir = d + 1],
                              Frame(new_pos, 1))
           /\ initial_path' = Append(initial_path, new_pos)
           /\ steps' = Append(steps, Add(new_pos[1], new_pos[2]))
    /\ UNCHANGED <<map_file, app_fields, transform_io, contents, verdict, map_data, pc, current_index,
                   current_path, elapsed, fired>>

\* the loop starting over at its first direction instead of returning
RecordBacktrack_Restart ==
    /\ pc = "record"
    /\ stack # <<>>
    /\ CellAt(map_data, stack[Len(stack)].start[1], stack[Len(stack)].start[2]) # "4"
    /\ OpenDirections(map_data, initial_path, stack[Len(stack)].start, stack[Len(stack)].dir) = {}
    /\ stack' = [stack EXCEPT ![Len(stack)].dir = 1]
    /\ UNCHANGED <<map_file, app_fields, transform_io, contents, verdict, map_data, pc, initial_path,
                   steps, current_index, current_path, elapsed, fired>>

\* the loop of the call at the top ends: lines 191-193
RecordBacktrack ==
    /\ pc = "record"
    /\ stack # <<>>
    /\ ~IsExitCell(map_data, Top.start)
    /\ OpenDirections(map_data, initial_path, Top.start, Top.dir) = {}
    /\ initial_path' = Front(initial_path)
    /\ steps' = Append(steps, Remove(Top.start[1], Top.start[2]))
    /\ stack' = Front(stack)
    /\ UNCHANGED <<map_file, app_fields, transform_io, contents, verdict, map_data, pc, current_index,
                   current_path, elapsed, fired>>

---------------------------------------------------------------------------
(* pathfinding.rs: AnimationManager *)

\* the manager as a record of its fields; elapsed stands for
\* last_update_time.elapsed()
Manager == [steps |-> steps, current_index |-> current_index,
            current_path |-> current_path, elapsed |-> elapsed]

\* every element equal to coord removed
RemoveFirst_All(path, coord) ==
    LET keep == { i \in 1..Len(path) : path[i] # coord }
        Nth(k) == CHOOSE i \in keep : Cardinality({ j \in keep : j < i }) = k - 1
    IN  [k \in 1..Cardinality(keep) |-> path[Nth(k)]]

\* the oldest element removed, whatever the coordinate
RemoveFirst_Head(path, coord) == IF path = <<>> THEN <<>> ELSE Tail(path)

\* Vec::remove at the position of the first element equal to coord, if any
RECURSIVE RemoveFirst(_, _)
RemoveFirst(path, coord) ==
    IF path = <<>> THEN <<>>
    ELSE IF Head(path) = coord THEN Tail(path)
    ELSE <<Head(path)>> \o RemoveFirst(Tail(path), coord)

\* the match on the step: lines 107-121
ApplyStep(path, step) ==
    IF step.kind = "Add" THEN Append(path, <<step.x, step.y>>)
    ELSE RemoveFirst(path, <<step.x, step.y>>)

\* a reset that rewinds the cursor and keeps the displayed path
reset_KeepPath(m) == [m EXCEPT !.current_index = 0, !.elapsed = 0]

reset(m) == [m EXCEPT !.current_index = 0, !.current_path = <<>>, !.elapsed = 0]

\* a clear that empties the steps and the path and leaves the cursor
clear_KeepCursor(m) == [m EXCEPT !.steps = <<>>, !.current_path = <<>>, !.elapsed = 0]

\* a clear that leaves the steps in place
clear_KeepSteps(m) == reset(m)

clear(m) == reset([m EXCEPT !.steps = <<>>])

\* the frame delay taken for the poll timeout
FrameDue_PollDelay(m) == m.elapsed >= POLL_TIMEOUT_MS

\* the frame delay taken for a count of seconds
FrameDue_Seconds(m) == m.elapsed >= ANIMATION_FRAME_DELAY_MS * 1000

\* the condition on line 101
FrameDue(m) == m.elapsed >= ANIMATION_FRAME_DELAY_MS

\* update resetting in the call that applies the last step
update_EagerReset(m) ==
    IF m.elapsed >= ANIMATION_FRAME_DELAY_MS
    THEN LET now == [m EXCEPT !.elapsed = 0] IN
         IF now.current_index < Len(now.steps)
         THEN LET next == [now EXCEPT
                             !.current_path = ApplyStep(now.current_path,
                                                        now.steps[now.current_index + 1]),
                             !.current_index = now.current_index + 1]
              IN  IF next.current_index = Len(next.steps)
                  THEN [next EXCEPT !.current_index = 0, !.current_path = <<>>]
                  ELSE next
         ELSE [now EXCEPT !.current_index = 0, !.current_path = <<>>]
    ELSE m

update(m) ==
    IF FrameDue(m)
    THEN LET now == [m EXCEPT !.elapsed = 0] IN
         IF now.current_index < Len(now.steps)
         THEN [now EXCEPT
                 !.current_path = ApplyStep(now.current_path,
                                            now.steps[now.current_index + 1]),
                 !.current_index = now.current_index + 1]
         ELSE reset(now)
    ELSE m

Idle(m) == m.current_index = 0 /\ m.current_path = <<>>

\* the manager's fields take the values of record m
SetManager(m) ==
    /\ steps' = m.steps
    /\ current_index' = m.current_index
    /\ current_path' = m.current_path
    /\ elapsed' = m.elapsed

---------------------------------------------------------------------------
(* app.rs, ui.rs, events.rs: the program started with a map file *)

Init ==
    /\ InputContents
    /\ verdict = "pending"
    /\ map_data = <<>>
    /\ pc = "start"
    /\ stack = <<>>
    /\ initial_path = <<>>
    /\ steps = <<>>
    /\ current_index = 0
    /\ current_path = <<>>
    /\ elapsed = 0
    /\ fired = 0
    /\ map_file = TestFile
    /\ NoApp
    /\ NoTransform

\* App::new() keeping the default map whatever map was loaded
NewApp_DefaultKept(map, scr) ==
    /\ exit' = FALSE
    /\ screen' = scr
    /\ map_key' = DefaultMap.key
    /\ map_data' = DefaultMap.data
    /\ maps' = <<>>
    /\ viewport_map' = <<>>
    /\ viewport_offset' = 0
    /\ viewport_height' = 0

\* App::new() with map as its current map and screen as its screen
NewApp(map, scr) ==
    /\ exit' = FALSE
    /\ screen' = scr
    /\ map_key' = map.key
    /\ map_data' = map.data
    /\ maps' = <<>>
    /\ viewport_map' = <<>>
    /\ viewport_offset' = 0
    /\ viewport_height' = 0

\* new_with_map returns an error: no App is built
NoAppBuilt ==
    /\ pc' = "error"
    /\ UNCHANGED <<map_data, app_fields>>

\* App::new_with_map(map_file).  With no file the App is App::new().  With a
\* file, its contents are read, the trimmed contents are validated, and the
\* map is built by Map::new from the file name and the contents as read.
NewWithMap ==
    /\ pc = "start"
    /\ IF ~map_file.given
       THEN /\ NewApp(DefaultMap, <<"MainMenu", "StartGame">>)
            /\ pc' = "menu"
            /\ verdict' = verdict
       ELSE IF ~map_file.readable
       THEN /\ NoAppBuilt
            /\ verdict' = verdict
       ELSE /\ verdict' = parse_file_contents(Trim(contents))
            /\ IF verdict'
               THEN LET map == MapNew(map_file.name, contents) IN
                    IF map.ok
                    THEN /\ NewApp(map, <<"InGame">>)
                         /\ pc' = "draw"
                    ELSE NoAppBuilt
               ELSE NoAppBuilt
    /\ UNCHANGED <<map_file, transform_io, contents, stack, initial_path,
                   steps, current_index, current_path, elapsed, fired>>

\* every '1' and every '3' taken for an entry
EntryPoints_OpenCells(data) ==
    { <<x, y>> \in UNION { {<<c, r>> : c \in 0..(Len(data[r + 1]) - 1)}
                           : r \in 0..(Len(data) - 1) } :
        CellAt(data, x, y) \in {"1", "3"} }

\* the first '1' in row order, as (col, row): ui.rs:294-304
EntryPoints(data) ==
    { <<x, y>> \in UNION { {<<c, r>> : c \in 0..(Len(data[r + 1]) - 1)}
                           : r \in 0..(Len(data) - 1) } :
        CellAt(data, x, y) = "1" }

\* the entry returned as (row, col)
FirstEntry_Swapped(data) ==
    LET p == CHOOSE p \in EntryPoints(data) :
                 \A q \in EntryPoints(data) :
                     p[2] < q[2] \/ (p[2] = q[2] /\ p[1] <= q[1])
    IN  <<p[2], p[1]>>

FirstEntry(data) ==
    CHOOSE p \in EntryPoints(data) :
        \A q \in EntryPoints(data) :
            p[2] < q[2] \/ (p[2] = q[2] /\ p[1] <= q[1])

\* ui::in_game with no steps recorded yet: the entry is looked up and
\* record_animation_steps is called on it (ui.rs:292-313)
InGameBegin ==
    /\ pc = "draw"
    /\ steps = <<>>
    /\ IF EntryPoints(map_data) = {}
       THEN /\ pc' = "error"
            /\ UNCHANGED <<stack, initial_path, steps>>
       ELSE LET entry_point == FirstEntry(map_data) IN
            /\ pc' = "record"
            /\ stack' = <<Frame(entry_point, 1)>>
            /\ initial_path' = <<entry_point>>
            /\ steps' = <<Add(entry_point[1], entry_point[2])>>
    /\ UNCHANGED <<map_file, app_fields, transform_io, contents, verdict, map_data, current_index, current_path,
                   elapsed, fired>>

\* record_animation_steps has returned: animation_manager.reset() (ui.rs:315)
InGameEnd ==
    /\ pc = "record"
    /\ stack = <<>>
    /\ SetManager(reset(Manager))
    /\ fired' = 0
    /\ pc' = "events"
    /\ UNCHANGED <<map_file, app_fields, transform_io, contents, verdict, map_data, stack, initial_path>>

\* ui::in_game with the steps recorded: nothing is recorded again
InGameDraw ==
    /\ pc = "draw"
    /\ steps # <<>>
    /\ pc' = "events"
    /\ UNCHANGED <<map_file, app_fields, transform_io, contents, verdict, map_data, stack, initial_path, steps,
                   current_index, current_path, elapsed, fired>>

\* the clock advances: while event::poll waits, or between two calls made
\* on a player driven on its own
TimePasses ==
    /\ pc \in {"events", "menu_events", "player"}
    /\ elapsed < MaxElapsed
    /\ elapsed' = IF elapsed + POLL_TIMEOUT_MS > MaxElapsed
                  THEN MaxElapsed ELSE elapsed + POLL_TIMEOUT_MS
    /\ UNCHANGED <<map_file, app_fields, transform_io, contents, verdict, map_data, pc, stack, initial_path,
                   steps, current_index, current_path, fired>>

\* the count of fired updates since the player was last idle
FiredAfter(m) ==
    IF ~FrameDue(m) THEN fired
    ELSE IF Idle(m) THEN 1 ELSE fired + 1

\* events::handle_events with no key pressed, on the InGame screen
HandleEvents ==
    /\ pc = "events"
    /\ SetManager(update(Manager))
    /\ fired' = FiredAfter(Manager)
    /\ pc' = "draw"
    /\ UNCHANGED <<map_file, app_fields, transform_io, contents, verdict, map_data, stack, initial_path>>

Next ==
    \/ NewWithMap
    \/ InGameBegin
    \/ RecordExit
    \/ RecordEnter
    \/ RecordBacktrack
    \/ InGameEnd
    \/ InGameDraw
    \/ TimePasses
    \/ HandleEvents

Spec == Init /\ [][Next]_vars

\* App::run loops draw and handle_events until exit is set (app.rs:133-143),
\* so every step of the program that can be taken is taken; event::poll
\* waits up to its timeout when no key arrives (events.rs:20), so the clock
\* advances again and again
Fairness ==
    /\ WF_pc(NewWithMap)
    /\ WF_pc(InGameBegin)
    /\ WF_steps(RecordExit)
    /\ WF_steps(RecordEnter)
    /\ WF_steps(RecordBacktrack)
    /\ WF_pc(InGameEnd)
    /\ WF_pc(InGameDraw)
    /\ WF_pc(HandleEvents)
    /\ SF_elapsed(TimePasses)

\* the program started on a test maze or on a text one edit away from the
\* first of them
InitLive ==
    /\ contents \in BaseTexts \cup Edits(Maze(<<2222, 2134, 2222>>))
    /\ verdict = "pending"
    /\ map_data = <<>>
    /\ pc = "start"
    /\ stack = <<>>
    /\ initial_path = <<>>
    /\ steps = <<>>
    /\ current_index = 0
    /\ current_path = <<>>
    /\ elapsed = 0
    /\ fired = 0
    /\ map_file = TestFile
    /\ NoApp
    /\ NoTransform

SpecLive == InitLive /\ [][Next]_vars /\ Fairness

---------------------------------------------------------------------------
(* ui.rs: the maze view entered on a map assigned to app.map, as its tests do *)

\* the test mazes and the texts one edit away from them, validated or not
GridTexts == UNION { EditsUpTo(b, TRUE) : b \in BaseTexts }

\* an App on the InGame screen whose map was assigned directly, with a new
\* animation manager
InitInGame ==
    /\ \E text \in GridTexts :
         /\ contents = text
         /\ map_data = MapData(text)
    /\ verdict = "pending"
    /\ pc = "draw"
    /\ stack = <<>>
    /\ initial_path = <<>>
    /\ steps = <<>>
    /\ current_index = 0
    /\ current_path = <<>>
    /\ elapsed = 0
    /\ fired = 0
    /\ map_file = NoFile
    /\ exit = FALSE
    /\ screen = <<"InGame">>
    /\ map_key = Stem
    /\ maps = <<>>
    /\ viewport_map = <<>>
    /\ viewport_offset = 0
    /\ viewport_height = 0
    /\ NoTransform

NextInGame ==
    \/ InGameBegin
    \/ RecordExit
    \/ RecordEnter
    \/ RecordBacktrack
    \/ InGameEnd
    \/ InGameDraw
    \/ TimePasses
    \/ HandleEvents

SpecInGame == InitInGame /\ [][NextInGame]_vars

---------------------------------------------------------------------------
(* pathfinding.rs: transform_maze_to_screen_coords *)

\* the sequences over S of length at most n
RECURSIVE SeqsUpTo(_, _)
SeqsUpTo(S, n) ==
    IF n = 0 THEN { <<>> }
    ELSE LET shorter == SeqsUpTo(S, n - 1) IN
         shorter \cup { Append(q, e) : q \in shorter, e \in S }

\* u16::MAX, the largest value u16::try_from accepts
U16_MAX == 65535

\* An f64 is modelled by the number of halves it holds: every value the
\* transform computes is a multiple of one half below 2^17, which f64
\* represents exactly.
F64(n) == 2 * n

\* the f64 division by 2., applied to a whole number
HalfOf(value) == value \div 2

\* u16::try_from(n) succeeds
FitsU16(n) == n <= U16_MAX

\* line 220 with the row axis pointing down
screen_y_Downwards(row, rows_n) == F64(row) - HalfOf(rows_n - F64(1))

\* line 220
screen_y(row, rows_n) == HalfOf(rows_n - F64(1)) - F64(row)

\* line 223
screen_x(col, cols_n) == F64(col) - HalfOf(cols_n - F64(1))

Err == [ok |-> FALSE, value |-> <<>>]

\* a grid without rows taken for a grid of one empty row
transform_EmptyGridAccepted(coords, data) ==
    LET rows_n == F64(Len(data))
        cols_n == IF data = <<>> THEN F64(0) ELSE F64(Len(data[1]))
    IN  IF \E i \in 1..Len(coords) : ~FitsU16(coords[i][1]) \/ ~FitsU16(coords[i][2])
        THEN Err
        ELSE [ok |-> TRUE,
              value |-> [i \in 1..Len(coords) |->
                           <<screen_x(coords[i][1], cols_n),
                             screen_y(coords[i][2], rows_n)>>]]

\* lines 205-229: the two dimensions are converted first, then every point
\* in order; the first failed conversion makes the whole call an error
transform_maze_to_screen_coords(coords, data) ==
    IF ~FitsU16(Len(data)) THEN Err
    ELSE IF data = <<>> THEN Err
    ELSE IF ~FitsU16(Len(data[1])) THEN Err
    ELSE LET rows_n == F64(Len(data))
             cols_n == F64(Len(data[1]))
         IN  IF \E i \in 1..Len(coords) :
                    ~FitsU16(coords[i][1]) \/ ~FitsU16(coords[i][2])
             THEN Err
             ELSE [ok |-> TRUE,
                   value |-> [i \in 1..Len(coords) |->
                                <<screen_x(coords[i][1], cols_n),
                                  screen_y(coords[i][2], rows_n)>>]]

\* the largest number of rows and of columns of the grids transformed
MaxDim == 5

\* the largest number of points transformed in one call
MaxPoints == 2

\* a grid of rows by cols walls; the transform reads the sizes only
WallGrid(rows, cols) == [r \in 1..rows |-> [c \in 1..cols |-> "2"]]

\* the coordinates of the points: in a grid, and past the range of u16
CoordValues == {0, 1, 2, 4, U16_MAX + 1}

InitTransform ==
    /\ contents = <<>>
    /\ verdict = "pending"
    /\ \E rows \in 0..MaxDim, cols \in 0..MaxDim : map_data = WallGrid(rows, cols)
    /\ pc = "transform"
    /\ stack = <<>>
    /\ initial_path = <<>>
    /\ steps = <<>>
    /\ current_index = 0
    /\ current_path = <<>>
    /\ elapsed = 0
    /\ fired = 0
    /\ map_file = NoFile
    /\ NoApp
    /\ maze_coords \in SeqsUpTo(CoordValues \X CoordValues, MaxPoints)
    /\ screen_coords = Err

\* transform_maze_to_screen_coords(&maze_coords, &map_data)
Transform ==
    /\ pc = "transform"
    /\ screen_coords' = transform_maze_to_screen_coords(maze_coords, map_data)
    /\ pc' = "transformed"
    /\ UNCHANGED <<map_file, app_fields, maze_coords, contents, verdict,
                   map_data, stack, initial_path, steps, current_index,
                   current_path, elapsed, fired>>

NextTransform == Transform

SpecTransform == InitTransform /\ [][NextTransform]_vars

---------------------------------------------------------------------------
(* map.rs: Map::new called on its own, as its tests do *)

\* any file name with any text, validated or not
InitMap ==
    /\ contents \in BaseTexts \cup Edits(Maze(<<222, 212, 222>>))
    /\ verdict = "pending"
    /\ map_data = <<>>
    /\ pc = "map_new"
    /\ stack = <<>>
    /\ initial_path = <<>>
    /\ steps = <<>>
    /\ current_index = 0
    /\ current_path = <<>>
    /\ elapsed = 0
    /\ fired = 0
    /\ \E name \in FileNames :
         map_file = [given |-> TRUE, name |-> name, readable |-> TRUE]
    /\ NoApp
    /\ NoTransform

\* Map::new(map_file.name, contents)
MapNewCall ==
    /\ pc = "map_new"
    /\ LET map == MapNew(map_file.name, contents) IN
       IF map.ok
       THEN /\ map_key' = map.key
            /\ map_data' = map.data
            /\ pc' = "map_built"
       ELSE /\ pc' = "error"
            /\ UNCHANGED <<map_key, map_data>>
    /\ UNCHANGED <<map_file, transform_io, contents, verdict, stack,
                   initial_path, steps, current_index, current_path, elapsed,
                   fired, exit, screen, maps, viewport_map, viewport_offset,
                   viewport_height>>

NextMap == MapNewCall

SpecMap == InitMap /\ [][NextMap]_vars

---------------------------------------------------------------------------
(* pathfinding.rs: an AnimationManager driven on its own, as its tests do *)

\* the coordinates of the steps pushed
StepCoords == { <<1, 1>>, <<2, 1>> }

StepValues ==
    { Add(p[1], p[2]) : p \in StepCoords } \cup { Remove(p[1], p[2]) : p \in StepCoords }

\* AnimationManager::new()
InitPlayer ==
    /\ contents = <<>>
    /\ verdict = "pending"
    /\ map_data = <<>>
    /\ pc = "player"
    /\ stack = <<>>
    /\ initial_path = <<>>
    /\ steps = <<>>
    /\ current_index = 0
    /\ current_path = <<>>
    /\ elapsed = 0
    /\ fired = 0
    /\ map_file = NoFile
    /\ NoApp
    /\ NoTransform

\* manager.steps.push(step)
PushStep ==
    /\ pc = "player"
    /\ Len(steps) < MaxSteps
    /\ \E step \in StepValues : steps' = Append(steps, step)
    /\ UNCHANGED <<map_file, app_fields, transform_io, contents, verdict, map_data, pc, stack, initial_path,
                   current_index, current_path, elapsed, fired>>

\* manager.update()
PlayerUpdate ==
    /\ pc = "player"
    /\ SetManager(update(Manager))
    /\ fired' = FiredAfter(Manager)
    /\ UNCHANGED <<map_file, app_fields, transform_io, contents, verdict, map_data, pc, stack, initial_path>>

\* manager.reset()
PlayerReset ==
    /\ pc = "player"
    /\ SetManager(reset(Manager))
    /\ fired' = 0
    /\ UNCHANGED <<map_file, app_fields, transform_io, contents, verdict, map_data, pc, stack, initial_path>>

\* manager.clear()
PlayerClear ==
    /\ pc = "player"
    /\ SetManager(clear(Manager))
    /\ fired' = 0
    /\ UNCHANGED <<map_file, app_fields, transform_io, contents, verdict, map_data, pc, stack, initial_path>>

NextPlayer ==
    \/ PushStep
    \/ PlayerUpdate
    \/ PlayerReset
    \/ PlayerClear
    \/ TimePasses

SpecPlayer == InitPlayer /\ [][NextPlayer]_vars

\* the longest displayed path a manager is given to start with
MaxPath == 2

\* a manager whose public fields were assigned directly, as the tests of
\* reset and clear do: any steps, any cursor (also past the end), any path
InitFields ==
    /\ contents = <<>>
    /\ verdict = "pending"
    /\ map_data = <<>>
    /\ pc = "player"
    /\ stack = <<>>
    /\ initial_path = <<>>
    /\ steps \in SeqsUpTo(StepValues, MaxSteps - 1)
    /\ current_index \in 0..(MaxSteps + 1)
    /\ current_path \in SeqsUpTo(StepCoords, MaxPath)
    /\ elapsed = 0
    /\ fired = 0
    /\ map_file = NoFile
    /\ NoApp
    /\ NoTransform

SpecFields == InitFields /\ [][NextPlayer]_vars

---------------------------------------------------------------------------
(* app.rs: the program started with any argument *)

\* no file, or a file of any name, readable or not, holding any of the
\* texts one edit away from the 3x4 test maze or a test maze
InitApp ==
    /\ \/ map_file = NoFile /\ contents = <<>>
       \/ \E name \in FileNames :
            \/ /\ map_file = [given |-> TRUE, name |-> name, readable |-> FALSE]
               /\ contents = <<>>
            \/ /\ map_file = [given |-> TRUE, name |-> name, readable |-> TRUE]
               /\ contents \in BaseTexts \cup Edits(Maze(<<2222, 2134, 2222>>))
    /\ verdict = "pending"
    /\ map_data = <<>>
    /\ pc = "start"
    /\ stack = <<>>
    /\ initial_path = <<>>
    /\ steps = <<>>
    /\ current_index = 0
    /\ current_path = <<>>
    /\ elapsed = 0
    /\ fired = 0
    /\ NoApp
    /\ NoTransform

SpecApp == InitApp /\ [][Next]_vars

---------------------------------------------------------------------------
(* Vocabulary of the properties *)

\* the cells of a grid as (col, row) pairs
Cells(data) ==
    UNION { {<<c, r>> : c \in 0..(Len(data[r + 1]) - 1)} : r \in 0..(Len(data) - 1) }

\* a cell in row 0, the last row, column 0 or the last column of the grid,
\* the width being that of the first row
OnBorder(data, p) ==
    \/ p[2] = 0
    \/ p[2] = Len(data) - 1
    \/ p[1] = 0
    \/ p[1] = Len(data[1]) - 1

\* the rules of the maze format, stated on the rows of a text
AtLeast3x3(data) == Len(data) >= 3 /\ Len(data[1]) >= 3
UniformRows(data) == \A r \in 1..Len(data) : Len(data[r]) = Len(data[1])
OnlyMazeBytes(data) ==
    \A p \in Cells(data) : CellAt(data, p[1], p[2]) \in {"1", "2", "3", "4"}
OneEntry(data) ==
    Cardinality({ p \in Cells(data) : CellAt(data, p[1], p[2]) = "1" }) = 1
BorderWallOrExit(data) ==
    \A p \in Cells(data) :
        OnBorder(data, p) => CellAt(data, p[1], p[2]) \in {"2", "4"}
NoInteriorExit(data) ==
    \A p \in Cells(data) :
        ~OnBorder(data, p) => CellAt(data, p[1], p[2]) # "4"

FormatRules(data) ==
    /\ AtLeast3x3(data)
    /\ UniformRows(data)
    /\ OnlyMazeBytes(data)
    /\ OneEntry(data)
    /\ BorderWallOrExit(data)
    /\ NoInteriorExit(data)

\* the current map is a grid the validator accepts
ValidatedMap == parse_file_contents(Join(map_data))

\* record_animation_steps has returned to in_game, which has not reset the
\* player yet
RecordingReturned == pc = "record" /\ stack = <<>>

Coord(step) == <<step.x, step.y>>

\* number of steps of the given kind on coordinate p
Count(trace, kind, p) ==
    Cardinality({ i \in 1..Len(trace) : trace[i].kind = kind /\ Coord(trace[i]) = p })

Adjacent(p, q) ==
    \/ p[1] = q[1] /\ (p[2] = q[2] + 1 \/ q[2] = p[2] + 1)
    \/ p[2] = q[2] /\ (p[1] = q[1] + 1 \/ q[1] = p[1] + 1)

\* the Entry and the Open cells joined to it by a chain of adjacent Open cells
RECURSIVE Connected(_, _)
Connected(data, S) ==
    LET more == { p \in Cells(data) \ S :
                    /\ CellAt(data, p[1], p[2]) = "3"
                    /\ \E q \in S : Adjacent(p, q) }
    IN  IF more = {} THEN S ELSE Connected(data, S \cup more)

ConnectedOpen(data) ==
    Connected(data, { p \in Cells(data) : CellAt(data, p[1], p[2]) = "1" })

ConnectedExits(data) ==
    { p \in Cells(data) :
        /\ CellAt(data, p[1], p[2]) = "4"
        /\ \E q \in ConnectedOpen(data) : Adjacent(p, q) }

Added(trace) == { Coord(trace[i]) : i \in { j \in 1..Len(trace) : trace[j].kind = "Add" } }

---------------------------------------------------------------------------
(* Properties of the validator *)

\* C2: every text parse_file_contents accepts has at least 3 rows and 3
\* columns, rows of one length, exactly one '1' in the whole grid and no '4'
\* in an interior cell.
C2_AcceptedShape ==
    (pc = "parsed" /\ verdict = TRUE) =>
        LET data == Lines(contents) IN
          /\ AtLeast3x3(data)
          /\ UniformRows(data)
          /\ OneEntry(data)
          /\ NoInteriorExit(data)

\* an accepted text of four rows with an exit and open cells
C2_Witness ==
    /\ pc = "parsed"
    /\ verdict = TRUE
    /\ Len(Lines(contents)) = 4
    /\ \E p \in Cells(Lines(contents)) : CellAt(Lines(contents), p[1], p[2]) = "4"
    /\ \E p \in Cells(Lines(contents)) : CellAt(Lines(contents), p[1], p[2]) = "3"

\* C3: every text parse_file_contents accepts has only the bytes '1'..'4' in
\* its rows and only '2' or '4' on its border, so that its '1' and its '3'
\* cells are interior cells.
C3_AcceptedBorder ==
    (pc = "parsed" /\ verdict = TRUE) =>
        LET data == Lines(contents) IN
          /\ OnlyMazeBytes(data)
          /\ BorderWallOrExit(data)
          /\ \A p \in Cells(data) :
                CellAt(data, p[1], p[2]) \in {"1", "3"} => ~OnBorder(data, p)

\* an accepted text with an exit in its last column and an open interior cell
C3_Witness ==
    /\ pc = "parsed"
    /\ verdict = TRUE
    /\ LET data == Lines(contents) IN
         /\ \E p \in Cells(data) :
              CellAt(data, p[1], p[2]) = "4" /\ p[1] = Len(data[1]) - 1
         /\ \E p \in Cells(data) :
              CellAt(data, p[1], p[2]) = "3" /\ ~OnBorder(data, p)

\* C4: parse_file_contents accepts every text that keeps all the format
\* rules: no text is rejected for another reason.
C4_Complete ==
    (pc = "parsed" /\ FormatRules(Lines(contents))) => verdict = TRUE

\* a text that keeps the rules, has an exit on its border and was changed
\* from every base text
C4_Witness ==
    /\ pc = "parsed"
    /\ verdict = TRUE
    /\ FormatRules(Lines(contents))
    /\ contents \notin BaseTexts
    /\ \E p \in Cells(Lines(contents)) : CellAt(Lines(contents), p[1], p[2]) = "4"

---------------------------------------------------------------------------
(* Properties of the recorder *)

\* C1: on a validated grid the trace recorded from the Entry is not empty,
\* has as many Add as Remove steps on every coordinate, has a later Remove
\* of the same coordinate after every Add, and the recorder's current path
\* is empty when record_animation_steps returns.
C1_Balanced ==
    (RecordingReturned /\ ValidatedMap) =>
        /\ steps # <<>>
        /\ initial_path = <<>>
        /\ \A p \in Cells(map_data) :
              Count(steps, "Add", p) = Count(steps, "Remove", p)
        /\ \A i \in 1..Len(steps) :
              steps[i].kind = "Add" =>
                  \E j \in (i + 1)..Len(steps) :
                      steps[j] = Remove(steps[i].x, steps[i].y)
        /\ \A i \in 1..Len(steps) : Coord(steps[i]) \in Cells(map_data)

\* a recording that returned on a validated grid after visiting an exit
\* and backtracking through several cells
C1_Witness ==
    /\ RecordingReturned
    /\ ValidatedMap
    /\ Len(steps) >= 8
    /\ \E i \in 1..Len(steps) : CellAt(map_data, steps[i].x, steps[i].y) = "4"

\* C5: in the recorded trace every Add of an Exit cell is followed at once
\* by the Remove of that cell.
C5_ExitEndsBranch ==
    pc = "record" =>
        /\ \A i \in 1..(Len(steps) - 1) :
              (steps[i].kind = "Add" /\ CellAt(map_data, steps[i].x, steps[i].y) = "4")
                  => steps[i + 1] = Remove(steps[i].x, steps[i].y)
        /\ (RecordingReturned /\ steps # <<>>) =>
              ~(/\ Last(steps).kind = "Add"
                /\ CellAt(map_data, Last(steps).x, Last(steps).y) = "4")

\* a finished trace in which an exit next to another exit was entered
C5_Witness ==
    /\ RecordingReturned
    /\ \E i \in 1..Len(steps) :
         /\ steps[i].kind = "Add"
         /\ CellAt(map_data, steps[i].x, steps[i].y) = "4"
         /\ \E q \in Cells(map_data) :
              Adjacent(q, Coord(steps[i])) /\ CellAt(map_data, q[1], q[2]) = "4"

\* C6: on a validated grid every Exit and every Open cell joined to the
\* Entry by a chain of adjacent Open cells is the coordinate of an Add step.
C6_Exhaustive ==
    (RecordingReturned /\ ValidatedMap) =>
        /\ ConnectedExits(map_data) \subseteq Added(steps)
        /\ ConnectedOpen(map_data) \subseteq Added(steps)

\* a finished recording on a validated grid with two connected exits and
\* three connected open cells
C6_Witness ==
    /\ RecordingReturned
    /\ ValidatedMap
    /\ Cardinality(ConnectedExits(map_data)) >= 2
    /\ Cardinality(ConnectedOpen(map_data)) >= 4

TestMaze == Maze(<<2222, 2134, 2222>>)

\* C7: the grid "2222", "2134", "2222" is accepted, its Entry is (1,1), its
\* trace begins with Add(1,1) and holds Add(3,1) followed at once by
\* Remove(3,1).
C7_TestMaze ==
    contents = TestMaze =>
        /\ pc # "start" => verdict = TRUE
        /\ pc \notin {"start", "error"} => FirstEntry(map_data) = <<1, 1>>
        /\ pc \in {"record", "events"} => steps[1] = Add(1, 1)
        /\ (RecordingReturned \/ pc = "events") =>
              \E i \in 1..(Len(steps) - 1) :
                  steps[i] = Add(3, 1) /\ steps[i + 1] = Remove(3, 1)

\* the recording of that grid has returned
C7_Witness == contents = TestMaze /\ RecordingReturned /\ Len(steps) = 6

---------------------------------------------------------------------------
(* Properties of the player *)

\* the player replays a trace recorded on a validated grid
Playing == pc \in {"events", "draw"} /\ steps # <<>> /\ ValidatedMap

\* C8 as stated: after exactly len(steps) fired updates from the idle state
\* the visible path is empty and the cursor is back at 0.
C8_AsStated ==
    (Playing /\ fired = Len(steps)) =>
        current_path = <<>> /\ current_index = 0

\* C8 amended: after exactly len(steps) fired updates from the idle state
\* the visible path is empty and the cursor is at len(steps); the update
\* fired after that one puts the cursor back at 0, the visible path still
\* empty.
C8_LoopClosure ==
    Playing =>
        /\ fired <= Len(steps) => current_index = fired
        /\ fired = Len(steps) => current_path = <<>>
        /\ fired = Len(steps) + 1 => (current_path = <<>> /\ current_index = 0)
        /\ fired <= Len(steps) + 1

\* the update after the last step of a trace of an exit and open cells has fired
C8_Witness ==
    /\ Playing
    /\ Len(steps) >= 8
    /\ fired = Len(steps) + 1

\* path without its first element equal to coord, path itself if there is none
WithoutFirst(path, coord) ==
    IF \A i \in 1..Len(path) : path[i] # coord THEN path
    ELSE LET k == Min({ i \in 1..Len(path) : path[i] = coord })
         IN  SubSeq(path, 1, k - 1) \o SubSeq(path, k + 1, Len(path))

\* C9: an update that fires with the cursor before the end of the steps
\* leaves steps alone, moves the cursor by one and applies steps[cursor]:
\* an Add appends its coordinate to the visible path, a Remove deletes the
\* first occurrence of its coordinate and nothing when there is none.
C9_AppliesOneStep ==
    [][(/\ PlayerUpdate
        /\ elapsed >= 200
        /\ current_index < Len(steps))
       => LET step == steps[current_index + 1] IN
            /\ steps' = steps
            /\ current_index' = current_index + 1
            /\ step.kind = "Add" => current_path' = Append(current_path, Coord(step))
            /\ step.kind = "Remove" => current_path' = WithoutFirst(current_path, Coord(step))]_vars

\* a Remove was applied to a visible path holding its coordinate twice, with
\* another coordinate in between: the first of the two is gone
C9_Witness ==
    /\ pc = "player"
    /\ current_index = 4
    /\ steps = <<Add(1, 1), Add(2, 1), Add(1, 1), Remove(1, 1)>>
    /\ current_path = <<<<2, 1>>, <<1, 1>>>>

\* C10: an update called before the frame interval has elapsed changes none
\* of steps, cursor, visible path and last update time.
C10_EarlyUpdateNoOp ==
    [][(PlayerUpdate /\ elapsed < 200)
       => UNCHANGED <<steps, current_index, current_path, elapsed>>]_vars

\* the player is part way through its steps with half the interval elapsed,
\* where an update is such a call
C10_Witness ==
    /\ pc = "player"
    /\ elapsed = 100
    /\ Len(steps) >= 2
    /\ current_index = 1
    /\ current_path # <<>>

---------------------------------------------------------------------------
\* C11: an update that fires while the cursor equals the number of steps
\* resets the player: the cursor becomes 0, the displayed path becomes
\* empty, the steps stay as they are and no step is applied by that call.
C11_EndOfTraceResets ==
    [][(PlayerUpdate /\ FrameDue(Manager) /\ current_index = Len(steps))
         => /\ current_index' = 0
            /\ current_path' = <<>>
            /\ steps' = steps]_vars

\* a due update is about to run with the cursor at the end of a non-empty
\* trace and a path on display
C11_Witness ==
    /\ pc = "player"
    /\ steps # <<>>
    /\ current_index = Len(steps)
    /\ current_path # <<>>
    /\ FrameDue(Manager)

---------------------------------------------------------------------------
\* C12: from any player state, reset puts the cursor at 0 and empties the
\* displayed path, leaving the steps as they are; clear does the same and
\* also empties the steps.
C12_ResetAndClear ==
    [][/\ PlayerReset => /\ current_index' = 0
                         /\ current_path' = <<>>
                         /\ steps' = steps
       /\ PlayerClear => /\ current_index' = 0
                         /\ current_path' = <<>>
                         /\ steps' = <<>>]_vars

\* reset and clear can be called on a manager whose cursor is past the end
\* of its steps and whose displayed path is not empty
C12_Witness ==
    /\ pc = "player"
    /\ steps # <<>>
    /\ current_index > Len(steps)
    /\ current_path # <<>>

---------------------------------------------------------------------------
\* the longest trace whose every index is followed
MaxTrace == 50

\* the program ended with an error before any playback
Failed == pc = "error"

\* the event loop runs on the maze view with a recorded trace
Animating == pc \in {"events", "draw"} /\ steps # <<>>

\* C13: with a non-empty recorded trace and updates that keep arriving with
\* the frame interval elapsed, playback never stops: the player is Idle
\* again and again, and every index of steps is applied again and again.
C13_LoopsForever ==
    /\ []<>(Failed \/ (Animating /\ Idle(Manager)))
    /\ \A k \in 1..MaxTrace :
         []<>(Failed \/ (Animating /\ (Len(steps) < k \/ current_index = k)))

\* playback of a trace of several steps has applied its last step
C13_Witness ==
    /\ Animating
    /\ Len(steps) >= 6
    /\ current_index = Len(steps)
    /\ current_path = <<>>

---------------------------------------------------------------------------
\* the loader has installed a map built from the file
MapInstalled == pc \in {"draw", "record", "events"}

\* C14: every map the loader installs satisfies the rules of the maze
\* format (at least 3 rows and 3 columns, rows of one width, a border of
\* '2' and '4', no '4' inside, exactly one '1'), also when the file starts
\* or ends with blank lines or whitespace.
C14_InstalledMapValid == MapInstalled => FormatRules(map_data)

---------------------------------------------------------------------------
\* text s ends with text suffix
EndsWith(s, suffix) ==
    /\ Len(s) >= Len(suffix)
    /\ SubSeq(s, Len(s) - Len(suffix) + 1, Len(s)) = suffix

\* rows are the lines of text, in order: joined by newlines they give the
\* text back, up to one final newline, and no row holds a newline
RowsOf(rows, text) ==
    /\ \A r \in 1..Len(rows) : \A i \in 1..Len(rows[r]) : rows[r][i] # NL
    /\ \/ Join(rows) = text
       \/ Join(rows) \o <<NL>> = text

\* C15: Map::new succeeds only when the identifier ends with ".labmap"; the
\* name is then the identifier without that suffix and the data are the
\* input lines in order; for every identifier that does not end with the
\* suffix it fails and builds no map.
C15_SuffixRequired ==
    /\ pc = "map_built" =>
         /\ EndsWith(map_file.name, Extension)
         /\ map_key \o Extension = map_file.name
         /\ RowsOf(map_data, contents)
    /\ (pc \in {"map_built", "error"} /\ ~EndsWith(map_file.name, Extension)) =>
         /\ pc = "error"
         /\ map_key = <<>>
         /\ map_data = <<>>

---------------------------------------------------------------------------
\* no cell of the grid is an entry
NoEntryCell(data) == \A p \in Cells(data) : CellAt(data, p[1], p[2]) # "1"

\* C16: entering the maze view with a current map that holds no '1' fails
\* with an error and records nothing: the steps stay empty, the cursor
\* stays 0 and the displayed path stays empty.
C16_NoEntryFails ==
    [][(pc = "draw" /\ NoEntryCell(map_data) /\ pc' # pc)
         => /\ pc' = "error"
            /\ steps' = <<>>
            /\ current_index' = 0
            /\ current_path' = <<>>]_vars

\* the maze view was entered on a grid that has open cells and no entry,
\* and ended with the error
C16_Witness ==
    /\ pc = "error"
    /\ NoEntryCell(map_data)
    /\ \E p \in Cells(map_data) : CellAt(map_data, p[1], p[2]) = "3"

---------------------------------------------------------------------------
\* the grid has n rows and a first row of n cells, n odd
OddSquare(data, n) == n % 2 = 1 /\ Len(data) = n /\ Len(data[1]) = n

\* the transform was given a grid with a first row and points in the range
\* of its coordinate type
Transformable ==
    /\ map_data # <<>>
    /\ \A i \in 1..Len(maze_coords) :
         maze_coords[i][1] <= U16_MAX /\ maze_coords[i][2] <= U16_MAX

\* C17: the transform returns one (x, y) per input cell, in input order,
\* with x = col - (cols_n - 1)/2 and y = (rows_n - 1)/2 - row; so the centre
\* of an odd n x n grid goes to (0, 0) and cell (0,0) of a 5x5 grid to
\* (-2, 2).  Coordinates are stated in halves: twice x, twice y.
C17_Formula ==
    (pc = "transformed" /\ Transformable) =>
        LET out == screen_coords.value
            rows_n == Len(map_data)
            cols_n == Len(map_data[1])
        IN  /\ screen_coords.ok
            /\ Len(out) = Len(maze_coords)
            /\ \A i \in 1..Len(maze_coords) :
                 LET col == maze_coords[i][1]
                     row == maze_coords[i][2]
                 IN  /\ out[i][1] = 2 * col - (cols_n - 1)
                     /\ out[i][2] = (rows_n - 1) - 2 * row
                     /\ \A n \in 1..rows_n :
                          (OddSquare(map_data, n) /\ 2 * col = n - 1 /\ 2 * row = n - 1)
                              => out[i] = <<0, 0>>
                     /\ (rows_n = 5 /\ cols_n = 5 /\ col = 0 /\ row = 0)
                              => out[i] = <<-4, 4>>

\* two points of a 5x5 grid were transformed: its corner (0,0) and then its
\* centre
C17_Witness ==
    /\ pc = "transformed"
    /\ Len(map_data) = 5
    /\ Len(map_data[1]) = 5
    /\ maze_coords = << <<0, 0>>, <<2, 2>> >>
    /\ screen_coords = [ok |-> TRUE, value |-> << <<-4, 4>>, <<0, 0>> >>]

---------------------------------------------------------------------------
\* the call returned an error and no coordinates
TransformFailed == ~screen_coords.ok /\ screen_coords.value = <<>>

\* C18 as stated: the transform fails, returning no coordinates, whenever
\* the grid has zero rows or its first row has zero length, for any list of
\* input points.
C18_AsStated ==
    (pc = "transformed" /\ (map_data = <<>> \/ Len(map_data[1]) = 0))
        => TransformFailed

\* C18: the transform fails, returning no coordinates, whenever the grid has
\* zero rows, for any list of input points; a grid whose first row has zero
\* length is transformed like any other, with cols_n = 0.
C18_EmptyGridFails ==
    /\ (pc = "transformed" /\ map_data = <<>>) => TransformFailed
    /\ (pc = "transformed" /\ Transformable /\ Len(map_data[1]) = 0) =>
         /\ screen_coords.ok
         /\ Len(screen_coords.value) = Len(maze_coords)
         /\ \A i \in 1..Len(maze_coords) :
              screen_coords.value[i][1] = 2 * maze_coords[i][1] + 1

\* the transform was called with points on a grid without rows and failed
C18_Witness ==
    /\ pc = "transformed"
    /\ map_data = <<>>
    /\ maze_coords # <<>>
    /\ TransformFailed

---------------------------------------------------------------------------
\* text s holds text pat somewhere
HoldsText(s, pat) ==
    \E i \in 0..(Len(s) - Len(pat)) : SubSeq(s, i + 1, i + Len(pat)) = pat

\* Path::file_stem of a file name: the name up to its last dot, the whole
\* name when it has no dot after its first character
FileStem(name) ==
    LET dots == { i \in 2..Len(name) : name[i] = "." } IN
    IF dots = {} THEN name
    ELSE SubSeq(name, 1, (CHOOSE i \in dots : \A j \in dots : j <= i) - 1)

\* the file given to new_with_map can be read and its content, trimmed,
\* follows the rules of the maze format
ValidFile ==
    /\ map_file.given
    /\ map_file.readable
    /\ FormatRules(Lines(Trim(contents)))

\* new_with_map returns in this step
NewWithMapReturns == pc = "start" /\ pc' # "start"

\* the state of App::new(), primed
InitialApp ==
    /\ exit' = FALSE
    /\ screen' = <<"MainMenu", "StartGame">>
    /\ map_key' = <<"D", "e", "f", "a", "u", "l", "t">>
    /\ Len(map_data') = 21
    /\ \A r \in 1..21 : Len(map_data'[r]) = 31
    /\ FormatRules(map_data')
    /\ maps' = <<>>
    /\ viewport_map' = <<>>
    /\ viewport_offset' = 0
    /\ viewport_height' = 0
    /\ steps' = <<>>
    /\ current_index' = 0
    /\ current_path' = <<>>

\* the error return: no App
ErrorReturned == pc' = "error" /\ NoApp' /\ map_data' = <<>>

---------------------------------------------------------------------------
\* the neighbour of cell p to the North (1), South (2), East (3), West (4)
NeighbourAt(p, rank) ==
    CASE rank = 1 -> <<p[1], p[2] - 1>>
      [] rank = 2 -> <<p[1], p[2] + 1>>
      [] rank = 3 -> <<p[1] + 1, p[2]>>
      [] rank = 4 -> <<p[1] - 1, p[2]>>

\* cell q may be entered: it lies in the grid, holds '3' or '4', and is not
\* in the current path
Qualifies(data, path, q) ==
    /\ q[2] \in 0..(Len(data) - 1)
    /\ q[1] \in 0..(Len(data[q[2] + 1]) - 1)
    /\ data[q[2] + 1][q[1] + 1] \in {"3", "4"}
    /\ \A i \in 1..Len(path) : path[i] # q

\* the rank of the neighbour of p explored last: that of the cell whose
\* Remove ends the trace, 0 when the trace ends with the Add of p
LastExplored(trace, p) ==
    IF Last(trace).kind = "Add" THEN 0
    ELSE CHOOSE rank \in 1..4 : NeighbourAt(p, rank) = Coord(Last(trace))

\* the recorder emits a step
RecorderEmits == pc = "record" /\ pc' = "record" /\ Len(steps') = Len(steps) + 1

\* C20: neighbours are explored in the order North, South, East, West: each
\* neighbour entered from a cell is the next qualifying one after the
\* neighbour explored before it, the cell is left only when no qualifying
\* neighbour remains, and a neighbour is entered only if it is in bounds,
\* holds '3' or '4', and is not in the current path at that moment.
C20_ExplorationOrder ==
    [][RecorderEmits =>
         LET cell == Last(initial_path)
             step == Last(steps')
             before == LastExplored(steps, cell)
         IN  IF step.kind = "Add"
             THEN \E rank \in 1..4 :
                    /\ Coord(step) = NeighbourAt(cell, rank)
                    /\ Qualifies(map_data, initial_path, Coord(step))
                    /\ before < rank
                    /\ \A skipped \in (before + 1)..(rank - 1) :
                         ~Qualifies(map_data, initial_path,
                                    NeighbourAt(cell, skipped))
             ELSE /\ Coord(step) = cell
                  /\ CellAt(map_data, cell[1], cell[2]) # "4" =>
                       \A left \in (before + 1)..4 :
                           ~Qualifies(map_data, initial_path,
                                      NeighbourAt(cell, left))]_steps

\* on the 4x5 test maze the entry (1,1) has the qualifying neighbours South
\* (1,2) and East (2,1): the trace enters South first and enters East right
\* after the Remove of South
C20_Witness ==
    /\ RecordingReturned
    /\ contents = Maze(<<22224, 21332, 23332, 22222>>)
    /\ steps[2] = Add(1, 2)
    /\ \E k \in 3..Len(steps) :
         steps[k] = Add(2, 1) /\ steps[k - 1] = Remove(1, 2)

---------------------------------------------------------------------------
(* record_animation_steps called on its own, as the tests of pathfinding.rs
   call it: any lines as the grid, any pair as the start, an empty path and
   an empty trace *)

\* the grids of the recorder alone: the test mazes, the grids one edit away
\* from them, and a grid of Open cells only
RecordGrids == GridTexts \cup {Maze(<<333, 333, 333>>)}

Max(S) == CHOOSE m \in S : \A n \in S : m >= n

\* the start arguments: every cell, and the pairs one column or one row
\* outside the grid
StartCells(data) ==
    { <<x, y>> : x \in 0..Max({Len(data[r]) : r \in 1..Len(data)}),
                 y \in 0..Len(data) }

\* the call has pushed start and recorded its Add: lines 144-145
InitRecord ==
    /\ \E text \in RecordGrids :
         /\ contents = text
         /\ map_data = MapData(text)
         /\ \E start \in StartCells(MapData(text)) :
              /\ stack = <<Frame(start, 1)>>
              /\ initial_path = <<start>>
              /\ steps = <<Add(start[1], start[2])>>
    /\ verdict = "pending"
    /\ pc = "record"
    /\ current_index = 0
    /\ current_path = <<>>
    /\ elapsed = 0
    /\ fired = 0
    /\ map_file = NoFile
    /\ NoApp
    /\ NoTransform

\* the outermost call has returned to its caller
RecordReturn ==
    /\ pc = "record"
    /\ stack = <<>>
    /\ pc' = "recorded"
    /\ UNCHANGED <<map_file, app_fields, transform_io, contents, verdict, map_data, stack,
                   initial_path, steps, current_index, current_path, elapsed, fired>>

NextRecord ==
    \/ RecordExit
    \/ RecordEnter
    \/ RecordBacktrack
    \/ RecordReturn

\* the call is a sequential computation: it takes its next step as long as
\* it has one
SpecRecord ==
    /\ InitRecord
    /\ [][NextRecord]_vars
    /\ WF_steps(RecordExit \/ RecordEnter \/ RecordBacktrack)
    /\ WF_pc(RecordReturn)

\* the grid has four Open cells in a square: a cycle of Open cells
OpenCycle(data) ==
    \E p \in Cells(data) :
      \A q \in {p, <<p[1] + 1, p[2]>>, <<p[1], p[2] + 1>>, <<p[1] + 1, p[2] + 1>>} :
        CellAt(data, q[1], q[2]) = "3"

\* C21: record_animation_steps returns on every grid and every start cell,
\* validated or not, grids with cycles of Open cells included
C21_Terminates == <>(pc = "recorded")

\* the call has returned on an unvalidated grid with a cycle of Open cells,
\* after entering cells
C21_Witness ==
    /\ pc = "recorded"
    /\ OpenCycle(map_data)
    /\ ~ValidatedMap
    /\ Len(steps) > 4

---------------------------------------------------------------------------
(* The trace as a sequence of brackets *)

\* Adds minus Removes among the first k steps
Depth(trace, k) ==
    Cardinality({ i \in 1..k : trace[i].kind = "Add" })
    - Cardinality({ i \in 1..k : trace[i].kind = "Remove" })

\* the Adds before step n that are not removed before step n and have
\* nothing added after them still present: the candidates for the most
\* recent coordinate not yet removed
OpenBefore(trace, n) ==
    { j \in 1..(n - 1) :
        /\ trace[j].kind = "Add"
        /\ Depth(trace, j) = Depth(trace, n - 1) }

\* while record_animation_steps runs or has just returned
Recording == pc \in {"record", "recorded"}

\* C22: the trace is well nested.  Every state of the recorder holds a
\* prefix of the final trace: in each, Removes never outnumber Adds, and a
\* Remove recorded last names the most recently added coordinate that was
\* not removed before it
C22_WellNested ==
    Recording =>
      LET n == Len(steps) IN
        /\ Depth(steps, n) >= 0
        /\ steps[n].kind = "Remove" =>
             /\ OpenBefore(steps, n) # {}
             /\ Coord(steps[Max(OpenBefore(steps, n))]) = Coord(steps[n])

\* a returned call whose trace went three cells deep and added again after a
\* Remove
C22_Witness ==
    /\ pc = "recorded"
    /\ \E k \in 1..Len(steps) : Depth(steps, k) >= 3
    /\ \E i \in 1..(Len(steps) - 1) :
         steps[i].kind = "Remove" /\ steps[i + 1].kind = "Add"


\* no coordinate occurs twice in the path
NoDuplicates(path) ==
    \A i, j \in 1..Len(path) : path[i] = path[j] => i = j

\* C23: while recording, the current path holds no coordinate twice, and in
\* the trace recorded so far every coordinate has as many Adds as Removes or
\* one more, the one more being the coordinates on the path
C23_PathSimple ==
    Recording =>
      /\ NoDuplicates(initial_path)
      /\ \A p \in Added(steps) :
           LET open == Count(steps, "Add", p) - Count(steps, "Remove", p) IN
             /\ open \in {0, 1}
             /\ open = 1 <=> Contains(initial_path, p)

\* the recorder is on a path that has come back next to a cell it holds,
\* with nothing beside that cell between them: a cycle was closed and not
\* entered
C23_Witness ==
    /\ pc = "record"
    /\ Len(initial_path) >= 4
    /\ Adjacent(Last(initial_path), initial_path[Len(initial_path) - 3])
    /\ CellAt(map_data, initial_path[Len(initial_path) - 3][1],
              initial_path[Len(initial_path) - 3][2]) \in {"3", "4"}


\* the recorder's path after the first k steps of a trace: an Add pushes its
\* coordinate, a Remove pops the last one, as lines 144 and 152, 191 do
RECURSIVE PathAfter(_, _)
PathAfter(trace, k) ==
    IF k = 0 THEN <<>>
    ELSE IF trace[k].kind = "Add"
    THEN Append(PathAfter(trace, k - 1), Coord(trace[k]))
    ELSE Front(PathAfter(trace, k - 1))

\* C24: playback refines recording.  While in_game records, the recorder's
\* path is the push/pop path of the steps recorded so far; while the trace
\* is replayed from the idle player, after k fired ticks, k up to the length
\* of the trace, visible_path is that same path for the first k steps, in
\* the same order
C24_PlaybackRefines ==
    /\ pc = "record" => initial_path = PathAfter(steps, Len(steps))
    /\ (pc \in {"events", "draw"} /\ steps # <<>> /\ fired <= Len(steps)) =>
         /\ current_index = fired
         /\ current_path = PathAfter(steps, fired)

\* the player has just taken a Remove out of a path of three cells or more,
\* on a trace that removes and adds again
C24_Witness ==
    /\ pc = "draw"
    /\ fired >= 4
    /\ fired < Len(steps)
    /\ steps[fired].kind = "Remove"
    /\ Len(current_path) >= 2
    /\ \E i \in 1..(Len(steps) - 1) :
         steps[i].kind = "Remove" /\ steps[i + 1].kind = "Add"


\* the Entry of a validated grid: its one '1' cell
EntryCell(data) == CHOOSE p \in Cells(data) : CellAt(data, p[1], p[2]) = "1"

\* C25: on a validated grid the trace in_game records starts with the Add of
\* the Entry, ends with the Remove of the Entry, and adds the Entry once
C25_EntryBrackets ==
    (RecordingReturned /\ ValidatedMap) =>
      LET e == EntryCell(map_data) IN
        /\ steps[1] = Add(e[1], e[2])
        /\ Last(steps) = Remove(e[1], e[2])
        /\ Count(steps, "Add", e) = 1

\* the recording of a validated grid has returned with a trace that comes
\* back next to the Entry after leaving it
C25_Witness ==
    /\ RecordingReturned
    /\ ValidatedMap
    /\ Len(steps) >= 10
    /\ \E i \in 3..(Len(steps) - 1) :
         /\ steps[i].kind = "Add"
         /\ Adjacent(Coord(steps[i]), EntryCell(map_data))


\* the recorder records an Add
RecorderAdds == RecorderEmits /\ Last(steps').kind = "Add"

\* C26: every Add after the first names a cell inside the grid that holds
\* '3' or '4' and is next to the last cell of the path at that moment, and
\* no step of the trace in_game records names a Wall cell or a pair outside
\* the grid
C26_AddsLegal ==
    [][ /\ RecorderAdds =>
             LET c == Coord(Last(steps')) IN
               /\ c \in Cells(map_data)
               /\ CellAt(map_data, c[1], c[2]) \in {"3", "4"}
               /\ Adjacent(c, Last(initial_path))
        /\ pc' = "record" =>
             \A i \in 1..Len(steps') :
               /\ Coord(steps'[i]) \in Cells(map_data)
               /\ CellAt(map_data, steps'[i].x, steps'[i].y) # "2"
      ]_steps

\* the recorder has added an Exit on the border from a path of three cells
\* that has a Wall beside its last cell
C26_Witness ==
    /\ pc = "record"
    /\ Len(initial_path) >= 4
    /\ CellAt(map_data, Last(initial_path)[1], Last(initial_path)[2]) = "4"
    /\ OnBorder(map_data, Last(initial_path))
    /\ \E d \in 1..Len(directions) :
         LET n == Neighbour(initial_path[Len(initial_path) - 1], d) IN
           CellAt(map_data, n[1], n[2]) = "2"


\* the paths one cell longer than those of F: a cell that holds '3' or '4',
\* is next to the last cell and is not on the path, and so on from the new
\* paths that end on an Open cell
RECURSIVE Grow(_, _)
Grow(data, F) ==
    LET next == { Append(p, c) : p \in F, c \in Cells(data) } IN
    LET longer == { q \in next :
                      /\ CellAt(data, Last(q)[1], Last(q)[2]) \in {"3", "4"}
                      /\ Adjacent(Last(q), q[Len(q) - 1])
                      /\ ~Contains(Front(q), Last(q)) }
    IN  IF longer = {} THEN {}
        ELSE longer \cup Grow(data, { q \in longer : CellAt(data, Last(q)[1], Last(q)[2]) = "3" })

\* the simple 4-adjacent paths from the Entry through Open cells to an Open
\* or Exit cell, the path of the Entry alone among them
SimplePaths(data) == {<<EntryCell(data)>>} \cup Grow(data, {<<EntryCell(data)>>})

\* the paths the recorder has had right after each Add of a trace
Observed(trace) ==
    { PathAfter(trace, k) : k \in { i \in 1..Len(trace) : trace[i].kind = "Add" } }

\* C27: each simple path is explored once.  On a validated grid, the path
\* the recorder has right after an Add is the path of the steps so far, is a
\* simple path from the Entry, and was not observed after an earlier Add;
\* when the recording returns every simple path from the Entry has been
\* observed
C27_EachPathOnce ==
    [][ ValidatedMap =>
          /\ (pc' = "record" /\ Len(steps') = Len(steps) + 1 /\ Last(steps').kind = "Add") =>
               /\ initial_path' = PathAfter(steps', Len(steps'))
               /\ initial_path' \in SimplePaths(map_data)
               /\ initial_path' \notin Observed(steps)
          /\ (pc' = "record" /\ stack' = <<>>) =>
               SimplePaths(map_data) \subseteq Observed(steps')
      ]_steps

\* the recording of a validated grid with a cycle of Open cells has
\* returned: some cell was reached along two different paths
C27_Witness ==
    /\ RecordingReturned
    /\ ValidatedMap
    /\ OpenCycle(map_data)
    /\ \E p, q \in Observed(steps) : p # q /\ Last(p) = Last(q)


\* a manager on which only push, update, reset and clear act
PlayerFields == <<steps, current_index, current_path, elapsed>>

\* the step is a call of update
UpdateCalled == pc = "player" /\ Manager' = update(Manager) /\ fired' = FiredAfter(Manager)

\* C28: from AnimationManager::new, under any interleaving of pushes onto
\* steps, update, reset and clear, the cursor stays between 0 and the length
\* of steps; update reads a step only at a cursor below that length, and on
\* empty steps it leaves the cursor 0 and visible_path empty
C28_CursorInRange ==
    /\ [](pc = "player" => (current_index >= 0 /\ current_index <= Len(steps)))
    /\ [][ UpdateCalled =>
             /\ current_index' > current_index =>
                  /\ current_index + 1 \in DOMAIN steps
                  /\ current_index' = current_index + 1
             /\ steps = <<>> => (current_index' = 0 /\ current_path' = <<>>)
         ]_PlayerFields

\* update has fired on a manager that holds no steps
C28_Witness ==
    /\ pc = "player"
    /\ steps = <<>>
    /\ current_index = 0
    /\ current_path = <<>>
    /\ fired = 1
    /\ elapsed = 0

---------------------------------------------------------------------------
(* events.rs and ui::draw: the run loop with keys *)

\* str::ends_with
ends_with(s, pat) ==
    Len(s) >= Len(pat) /\ SubSeq(s, Len(s) - Len(pat) + 1, Len(s)) = pat

\* a Map value: its name and its rows
AsMap(m) == [key |-> m.key, data |-> m.data]

\* the App as a record of its fields
TheApp ==
    [exit |-> exit, screen |-> screen,
     map |-> [key |-> map_key, data |-> map_data],
     maps |-> maps, viewport_map |-> viewport_map,
     viewport_offset |-> viewport_offset, viewport_height |-> viewport_height,
     animation_manager |-> Manager]

\* Ok(()) with the App as the handler left it, or an error
Done(app) == [ok |-> TRUE, app |-> app]
Fail(app) == [ok |-> FALSE, app |-> app]

\* fetch_files from entry i of the directory on: a regular file whose name
\* ends with ".labmap" is read, and pushed as a Map when its trimmed
\* contents pass the validator; a failed read is an error
RECURSIVE fetch_from(_, _, _)
fetch_from(list, dir, i) ==
    IF i > Len(dir) THEN [ok |-> TRUE, maps |-> list]
    ELSE IF ~dir[i].is_dir /\ ends_with(dir[i].name, Extension)
    THEN IF ~dir[i].readable THEN [ok |-> FALSE, maps |-> list]
         ELSE IF parse_file_contents(Trim(dir[i].contents))
         THEN IF MapNew(dir[i].name, dir[i].contents).ok
              THEN fetch_from(Append(list, AsMap(MapNew(dir[i].name, dir[i].contents))),
                              dir, i + 1)
              ELSE [ok |-> FALSE, maps |-> list]
         ELSE fetch_from(list, dir, i + 1)
    ELSE fetch_from(list, dir, i + 1)

fetch_files(list, dir) == fetch_from(list, dir, 1)

\* maps.iter().skip(viewport_offset).take(viewport_height)
Window(app) ==
    SubSeq(app.maps, app.viewport_offset + 1,
           Min({app.viewport_offset + app.viewport_height, Len(app.maps)}))

\* the index found by the loop over maps: the first map equal to m, else 0
IndexOf(list, m) ==
    IF \E i \in 1..Len(list) : list[i] = m
    THEN Min({ i \in 1..Len(list) : list[i] = m }) - 1
    ELSE 0

\* 'j' in the map menu making the map it moves to the current map
handle_j_Selects(app) ==
    IF app.screen = <<"MainMenu", "StartGame">>
    THEN Done([app EXCEPT !.screen = <<"MainMenu", "Options">>])
    ELSE IF app.screen = <<"MainMenu", "Options">>
    THEN Done([app EXCEPT !.screen = <<"MainMenu", "Quit">>])
    ELSE IF app.screen = <<"OptionsMenu", "Map">>
    THEN Done([app EXCEPT !.screen = <<"OptionsMenu", "Back">>])
    ELSE IF app.screen = <<"MapMenu">>
    THEN IF app.viewport_map = <<>> THEN Fail(app)
         ELSE IF Window(app) = <<>> THEN Fail(app)
         ELSE LET cursor == app.viewport_map[1]
                  scrolled == IF cursor = Last(Window(app)) /\ cursor # Last(app.maps)
                              THEN [app EXCEPT !.viewport_offset = @ + 1]
                              ELSE app
                  index == IndexOf(app.maps, cursor)
              IN  IF index + 1 < Len(app.maps)
                  THEN Done([scrolled EXCEPT !.viewport_map = <<app.maps[index + 2]>>,
                                             !.map = app.maps[index + 2]])
                  ELSE Done(scrolled)
    ELSE Done(app)

\* 'j' scrolling the window whenever the cursor is on its last row
handle_j_AlwaysScrolls(app) ==
    IF app.screen = <<"MainMenu", "StartGame">>
    THEN Done([app EXCEPT !.screen = <<"MainMenu", "Options">>])
    ELSE IF app.screen = <<"MainMenu", "Options">>
    THEN Done([app EXCEPT !.screen = <<"MainMenu", "Quit">>])
    ELSE IF app.screen = <<"OptionsMenu", "Map">>
    THEN Done([app EXCEPT !.screen = <<"OptionsMenu", "Back">>])
    ELSE IF app.screen = <<"MapMenu">>
    THEN IF app.viewport_map = <<>> THEN Fail(app)
         ELSE IF Window(app) = <<>> THEN Fail(app)
         ELSE LET cursor == app.viewport_map[1]
                  scrolled == IF cursor = Last(Window(app))
                              THEN [app EXCEPT !.viewport_offset = @ + 1]
                              ELSE app
                  index == IndexOf(app.maps, cursor)
              IN  IF index + 1 < Len(app.maps)
                  THEN Done([scrolled EXCEPT !.viewport_map = <<app.maps[index + 2]>>])
                  ELSE Done(scrolled)
    ELSE Done(app)

handle_j_events(app) ==
    IF app.screen = <<"MainMenu", "StartGame">>
    THEN Done([app EXCEPT !.screen = <<"MainMenu", "Options">>])
    ELSE IF app.screen = <<"MainMenu", "Options">>
    THEN Done([app EXCEPT !.screen = <<"MainMenu", "Quit">>])
    ELSE IF app.screen = <<"OptionsMenu", "Map">>
    THEN Done([app EXCEPT !.screen = <<"OptionsMenu", "Back">>])
    ELSE IF app.screen = <<"MapMenu">>
    THEN IF app.viewport_map = <<>> THEN Fail(app)
         ELSE IF Window(app) = <<>> THEN Fail(app)
         ELSE LET cursor == app.viewport_map[1]
                  scrolled == IF cursor = Last(Window(app)) /\ cursor # Last(app.maps)
                              THEN [app EXCEPT !.viewport_offset = @ + 1]
                              ELSE app
                  index == IndexOf(app.maps, cursor)
              IN  IF index + 1 < Len(app.maps)
                  THEN Done([scrolled EXCEPT !.viewport_map = <<app.maps[index + 2]>>])
                  ELSE Done(scrolled)
    ELSE Done(app)

\* 'k' wrapping from the first item of the main menu to the last
handle_k_Wraps(app) ==
    IF app.screen = <<"MainMenu", "Quit">>
    THEN Done([app EXCEPT !.screen = <<"MainMenu", "Options">>])
    ELSE IF app.screen = <<"MainMenu", "Options">>
    THEN Done([app EXCEPT !.screen = <<"MainMenu", "StartGame">>])
    ELSE IF app.screen = <<"MainMenu", "StartGame">>
    THEN Done([app EXCEPT !.screen = <<"MainMenu", "Quit">>])
    ELSE IF app.screen = <<"OptionsMenu", "Back">>
    THEN Done([app EXCEPT !.screen = <<"OptionsMenu", "Map">>])
    ELSE IF app.screen = <<"MapMenu">>
    THEN IF app.viewport_map = <<>> THEN Fail(app)
         ELSE IF Window(app) = <<>> THEN Fail(app)
         ELSE LET cursor == app.viewport_map[1]
                  scrolled == IF cursor = Head(Window(app)) /\ cursor # Head(app.maps)
                              THEN [app EXCEPT !.viewport_offset = @ - 1]
                              ELSE app
                  index == IndexOf(app.maps, cursor)
                  prev == IF index = 0 THEN 0 ELSE index - 1
              IN  Done([scrolled EXCEPT !.viewport_map = <<app.maps[prev + 1]>>])
    ELSE Done(app)

handle_k_events(app) ==
    IF app.screen = <<"MainMenu", "Quit">>
    THEN Done([app EXCEPT !.screen = <<"MainMenu", "Options">>])
    ELSE IF app.screen = <<"MainMenu", "Options">>
    THEN Done([app EXCEPT !.screen = <<"MainMenu", "StartGame">>])
    ELSE IF app.screen = <<"OptionsMenu", "Back">>
    THEN Done([app EXCEPT !.screen = <<"OptionsMenu", "Map">>])
    ELSE IF app.screen = <<"MapMenu">>
    THEN IF app.viewport_map = <<>> THEN Fail(app)
         ELSE IF Window(app) = <<>> THEN Fail(app)
         ELSE LET cursor == app.viewport_map[1]
                  scrolled == IF cursor = Head(Window(app)) /\ cursor # Head(app.maps)
                              THEN [app EXCEPT !.viewport_offset = @ - 1]
                              ELSE app
                  index == IndexOf(app.maps, cursor)
                  prev == IF index = 0 THEN 0 ELSE index - 1
              IN  Done([scrolled EXCEPT !.viewport_map = <<app.maps[prev + 1]>>])
    ELSE Done(app)

\* 'l' on OptionsMenu(Back) starting the game
handle_l_BackStarts(app, dir) ==
    IF app.screen = <<"MainMenu", "StartGame">>
    THEN Done([app EXCEPT !.screen = <<"InGame">>])
    ELSE IF app.screen = <<"MainMenu", "Options">>
    THEN Done([app EXCEPT !.screen = <<"OptionsMenu", "Map">>])
    ELSE IF app.screen = <<"MainMenu", "Quit">>
    THEN Done([app EXCEPT !.exit = TRUE])
    ELSE IF app.screen = <<"OptionsMenu", "Map">>
    THEN LET first == [key |-> DefaultMap.key, data |-> DefaultMap.data]
             fetched == fetch_files(<<first>>, dir)
         IN  IF fetched.ok
             THEN Done([app EXCEPT !.screen = <<"MapMenu">>,
                                   !.maps = fetched.maps,
                                   !.viewport_map = <<first>>,
                                   !.viewport_offset = 0])
             ELSE Fail([app EXCEPT !.screen = <<"MapMenu">>, !.maps = fetched.maps])
    ELSE IF app.screen = <<"OptionsMenu", "Back">>
    THEN Done([app EXCEPT !.screen = <<"InGame">>])
    ELSE IF app.screen = <<"MapMenu">>
    THEN IF app.viewport_map = <<>> THEN Fail(app)
         ELSE Done([app EXCEPT !.map = app.viewport_map[1]])
    ELSE Done(app)

\* 'l' on OptionsMenu(Map) pushing onto the list without clearing it
handle_l_KeepsList(app, dir) ==
    IF app.screen = <<"MainMenu", "StartGame">>
    THEN Done([app EXCEPT !.screen = <<"InGame">>])
    ELSE IF app.screen = <<"MainMenu", "Options">>
    THEN Done([app EXCEPT !.screen = <<"OptionsMenu", "Map">>])
    ELSE IF app.screen = <<"MainMenu", "Quit">>
    THEN Done([app EXCEPT !.exit = TRUE])
    ELSE IF app.screen = <<"OptionsMenu", "Map">>
    THEN LET first == AsMap(DefaultMap)
             fetched == fetch_files(Append(app.maps, first), dir)
         IN  IF fetched.ok
             THEN Done([app EXCEPT !.screen = <<"MapMenu">>,
                                   !.maps = fetched.maps,
                                   !.viewport_map = <<first>>,
                                   !.viewport_offset = 0])
             ELSE Fail([app EXCEPT !.screen = <<"MapMenu">>, !.maps = fetched.maps])
    ELSE IF app.screen = <<"OptionsMenu", "Back">>
    THEN Done([app EXCEPT !.screen = <<"MainMenu", "StartGame">>])
    ELSE IF app.screen = <<"MapMenu">>
    THEN IF app.viewport_map = <<>> THEN Fail(app)
         ELSE Done([app EXCEPT !.map = app.viewport_map[1]])
    ELSE Done(app)

\* dir is what read_dir(".") yields when the map menu is entered
handle_l_events(app, dir) ==
    IF app.screen = <<"MainMenu", "StartGame">>
    THEN Done([app EXCEPT !.screen = <<"InGame">>])
    ELSE IF app.screen = <<"MainMenu", "Options">>
    THEN Done([app EXCEPT !.screen = <<"OptionsMenu", "Map">>])
    ELSE IF app.screen = <<"MainMenu", "Quit">>
    THEN Done([app EXCEPT !.exit = TRUE])
    ELSE IF app.screen = <<"OptionsMenu", "Map">>
    THEN LET first == AsMap(DefaultMap)
             fetched == fetch_files(<<first>>, dir)
         IN  IF fetched.ok
             THEN Done([app EXCEPT !.screen = <<"MapMenu">>,
                                   !.maps = fetched.maps,
                                   !.viewport_map = <<first>>,
                                   !.viewport_offset = 0])
             ELSE Fail([app EXCEPT !.screen = <<"MapMenu">>, !.maps = fetched.maps])
    ELSE IF app.screen = <<"OptionsMenu", "Back">>
    THEN Done([app EXCEPT !.screen = <<"MainMenu", "StartGame">>])
    ELSE IF app.screen = <<"MapMenu">>
    THEN IF app.viewport_map = <<>> THEN Fail(app)
         ELSE Done([app EXCEPT !.map = app.viewport_map[1]])
    ELSE Done(app)

\* 'h' on the map menu going back to the main menu
handle_h_MapMenuToMain(app) ==
    IF app.screen = <<"InGame">>
    THEN [app EXCEPT !.animation_manager = [@ EXCEPT !.steps = <<>>, !.current_index = 0,
                                                      !.current_path = <<>>, !.elapsed = 0],
                     !.screen = <<"MainMenu", "StartGame">>]
    ELSE IF app.screen = <<"MapMenu">>
    THEN [app EXCEPT !.screen = <<"MainMenu", "StartGame">>]
    ELSE app

\* 'h' on the InGame screen rewinding the player and keeping its steps
handle_h_ResetOnly(app) ==
    IF app.screen = <<"InGame">>
    THEN [app EXCEPT !.animation_manager = reset(@),
                     !.screen = <<"MainMenu", "StartGame">>]
    ELSE IF app.screen = <<"MapMenu">>
    THEN [app EXCEPT !.screen = <<"OptionsMenu", "Map">>]
    ELSE app

\* 'h' on the InGame screen leaving the animation as it is
handle_h_KeepAnimation(app) ==
    IF app.screen = <<"InGame">>
    THEN [app EXCEPT !.screen = <<"MainMenu", "StartGame">>]
    ELSE IF app.screen = <<"MapMenu">>
    THEN [app EXCEPT !.screen = <<"OptionsMenu", "Map">>]
    ELSE app

handle_h_events(app) ==
    IF app.screen = <<"InGame">>
    THEN [app EXCEPT !.animation_manager = clear(@),
                     !.screen = <<"MainMenu", "StartGame">>]
    ELSE IF app.screen = <<"MapMenu">>
    THEN [app EXCEPT !.screen = <<"OptionsMenu", "Map">>]
    ELSE app

\* the match on key.code: lines 22-29
handle_key(app, key, dir) ==
    IF key = "q" THEN Done([app EXCEPT !.exit = TRUE])
    ELSE IF key = "j" THEN handle_j_events(app)
    ELSE IF key = "k" THEN handle_k_events(app)
    ELSE IF key = "l" THEN handle_l_events(app, dir)
    ELSE IF key = "h" THEN Done(handle_h_events(app))
    ELSE Done(app)

\* handle_events with a key read: the handler, then update when the screen
\* it leaves is InGame (lines 33-36)
handle_events(app, key, dir) ==
    LET handled == handle_key(app, key, dir) IN
      IF ~handled.ok THEN handled
      ELSE IF handled.app.screen = <<"InGame">>
      THEN Done([handled.app EXCEPT !.animation_manager = update(@)])
      ELSE handled

\* a directory entry
File(name, is_dir, readable, text) ==
    [name |-> name, is_dir |-> is_dir, readable |-> readable, contents |-> text]

\* the directories the map menu is entered in: empty; a file without an
\* entry and a maze; a maze that cannot be read
DirListings ==
    { <<>>,
      << File(<<"l", "a", "b">> \o Extension, FALSE, TRUE, Maze(<<222, 232, 222>>)),
         File(Stem \o Extension, FALSE, TRUE, Maze(<<2222, 2134, 2222>>)) >>,
      << File(Stem \o Extension, FALSE, FALSE, <<>>) >> }

\* the heights of the list area of the map menu
TerminalHeights == {1}

\* the variables take the fields of the App record a
SetApp(a) ==
    /\ exit' = a.exit
    /\ screen' = a.screen
    /\ map_key' = a.map.key
    /\ map_data' = a.map.data
    /\ maps' = a.maps
    /\ viewport_map' = a.viewport_map
    /\ viewport_offset' = a.viewport_offset
    /\ viewport_height' = a.viewport_height
    /\ SetManager(a.animation_manager)

\* a run loop that does not look at exit
AfterEvents_NoExit(r) ==
    IF ~r.ok THEN "error"
    ELSE IF r.app.screen = <<"InGame">> THEN "draw"
    ELSE "menu"

\* where the run loop goes after handle_events: out on an error, out of the
\* loop when exit is set, else to the next draw
AfterEvents(r) ==
    IF ~r.ok THEN "error"
    ELSE IF r.app.exit THEN "exited"
    ELSE IF r.app.screen = <<"InGame">> THEN "draw"
    ELSE "menu"

\* the fired updates counted after a key: the update of lines 33-36 counts
\* when the screen is InGame, and leaving the InGame screen starts over
FiredAfterKey(key, dir) ==
    LET handled == handle_key(TheApp, key, dir) IN
      IF ~handled.ok THEN fired
      ELSE IF handled.app.screen = <<"InGame">>
      THEN FiredAfter(handled.app.animation_manager)
      ELSE 0

\* one pass of handle_events in which the key is read
Key(key, dir) ==
    /\ pc \in {"events", "menu_events"}
    /\ LET r == handle_events(TheApp, key, dir) IN
         /\ SetApp(r.app)
         /\ pc' = AfterEvents(r)
    /\ fired' = FiredAfterKey(key, dir)
    /\ UNCHANGED <<map_file, transform_io, contents, verdict, stack, initial_path>>

KeyQ == Key("q", <<>>)
KeyJ == Key("j", <<>>)
KeyK == Key("k", <<>>)
KeyL == \E dir \in DirListings : Key("l", dir)
KeyH == Key("h", <<>>)

\* handle_events on a menu screen with no key read
HandleEventsMenu ==
    /\ pc = "menu_events"
    /\ pc' = "menu"
    /\ UNCHANGED <<map_file, app_fields, transform_io, contents, verdict, map_data, stack,
                   initial_path, steps, current_index, current_path, elapsed, fired>>

\* ui::draw on a menu screen: main_menu and options_menu only render;
\* map_menu stores the height of the list area and needs the cursor map to
\* render a row (ui.rs:222, 238-241)
DrawMenu ==
    /\ pc = "menu"
    /\ IF screen = <<"MapMenu">>
       THEN \E height \in TerminalHeights :
              /\ viewport_height' = height
              /\ pc' = IF viewport_map = <<>>
                          /\ Window([TheApp EXCEPT !.viewport_height = height]) # <<>>
                       THEN "error" ELSE "menu_events"
       ELSE /\ viewport_height' = viewport_height
            /\ pc' = "menu_events"
    /\ UNCHANGED <<map_file, exit, screen, map_key, maps, viewport_map, viewport_offset,
                   transform_io, contents, verdict, map_data, stack, initial_path, steps,
                   current_index, current_path, elapsed, fired>>

\* the texts of the map file given on the command line
RunTexts == { Maze(<<2242, 2132, 2332, 2222>>) }

\* the program started with no argument or with a readable map file
InitRun ==
    /\ \/ map_file = NoFile /\ contents = <<>>
       \/ map_file = TestFile /\ contents \in RunTexts
    /\ verdict = "pending"
    /\ map_data = <<>>
    /\ pc = "start"
    /\ stack = <<>>
    /\ initial_path = <<>>
    /\ steps = <<>>
    /\ current_index = 0
    /\ current_path = <<>>
    /\ elapsed = 0
    /\ fired = 0
    /\ NoApp
    /\ NoTransform

NextRun ==
    \/ Next
    \/ DrawMenu
    \/ HandleEventsMenu
    \/ KeyQ
    \/ KeyJ
    \/ KeyK
    \/ KeyL
    \/ KeyH

SpecRun == InitRun /\ [][NextRun]_vars


---------------------------------------------------------------------------
(* Properties of the run loop *)

\* an App exists and shows a menu
OnMenu == screen \notin {<<"none">>, <<"InGame">>}

\* the animation manager holds nothing
AnimationEmpty == steps = <<>> /\ current_index = 0 /\ current_path = <<>>

Animation == <<steps, current_index, current_path>>

\* C30: in every state of the application whose screen is not InGame the
\* animation is empty: no steps, cursor 0, no visible path; and steps,
\* cursor and visible path change only in a pass of the run loop that starts
\* on the InGame screen
C30_EmptyOffGame ==
    /\ [](OnMenu => AnimationEmpty)
    /\ [][screen = <<"InGame">>]_Animation

\* the main menu, reached after a maze loaded from the directory was
\* selected in the map menu of a program started without a map file
C30_Witness ==
    /\ screen = <<"MainMenu", "StartGame">>
    /\ pc = "menu_events"
    /\ map_file = NoFile
    /\ map_key = Stem
    /\ Len(maps) = 2
    /\ AnimationEmpty


\* record_animation_steps as a function: the steps a call appends when the
\* current path, start pushed, is path.  The call records its Add, returns
\* at once from an exit, else goes through the four directions, each
\* recursive call leaving the path as it found it, and records its Remove
RECURSIVE Visit(_, _, _)
Visit(data, path, start) ==
    LET Try(d) == IF Explores(data, path, start, d)
                  THEN Visit(data, Append(path, Neighbour(start, d)), Neighbour(start, d))
                  ELSE <<>>
    IN  IF IsExitCell(data, start)
        THEN <<Add(start[1], start[2]), Remove(start[1], start[2])>>
        ELSE <<Add(start[1], start[2])>> \o Try(1) \o Try(2) \o Try(3) \o Try(4)
             \o <<Remove(start[1], start[2])>>

\* the call in_game makes: empty path, empty steps
record_animation_steps(data, start) == Visit(data, <<start>>, start)

\* between two steps of the run loop: not inside in_game's recording
LoopBoundary == pc \in {"draw", "events", "exited", "error"}

CurrentMap == <<map_key, map_data>>

\* C29: whenever the run loop is on the InGame screen with steps recorded,
\* the steps are the whole trace of record_animation_steps for the current
\* map from its first Entry.  Stated step by step: steps become non-empty
\* only when a recording starts; the recording ends, before the run loop
\* goes on, with the whole trace of the current map and the player reset to
\* cursor 0 and an empty visible path; from then on the steps and the map
\* stay as they are until the InGame screen is left with the steps cleared
C29_TraceOfCurrentMap ==
    [][ /\ (steps = <<>> /\ steps' # <<>>) => (pc' = "record" /\ screen' = <<"InGame">>)
        /\ (pc = "record" /\ pc' # "record") =>
             /\ LoopBoundary'
             /\ steps' = record_animation_steps(map_data', FirstEntry(map_data'))
             /\ current_index' = 0
             /\ current_path' = <<>>
        /\ pc = "record" => (CurrentMap' = CurrentMap /\ screen' = screen)
        /\ (LoopBoundary /\ screen = <<"InGame">> /\ steps # <<>>) =>
             \/ LoopBoundary' /\ steps' = steps /\ CurrentMap' = CurrentMap
             \/ steps' = <<>> /\ screen' # <<"InGame">>
      ]_<<pc, steps, screen, map_key, map_data>>

\* the maze from the directory, selected in the map menu after the default
\* map, is being played
C29_Witness ==
    /\ screen = <<"InGame">>
    /\ pc = "events"
    /\ map_file = NoFile
    /\ map_key = Stem
    /\ current_index = 3
    /\ Len(steps) > 3


---------------------------------------------------------------------------
(* Properties of the key handlers *)

\* what a pass of the run loop can change of the App and its player
Session == <<pc, app_fields, map_data, steps, current_index, current_path, elapsed>>

\* the cursor of the map menu
Cursor == <<viewport_map, viewport_offset>>

\* C31: 'h' on the InGame screen clears the animation (steps, cursor,
\* visible path) and moves to MainMenu(StartGame) with the current map as it
\* was; 'h' on MapMenu moves to OptionsMenu(Map) with the map, the maps and
\* the cursor as they were; 'h' on every other screen changes no field of
\* the App and nothing of the animation
C31_HFrame ==
    [][ KeyH =>
          /\ screen = <<"InGame">> =>
               /\ AnimationEmpty'
               /\ screen' = <<"MainMenu", "StartGame">>
               /\ CurrentMap' = CurrentMap
          /\ screen = <<"MapMenu">> =>
               /\ screen' = <<"OptionsMenu", "Map">>
               /\ CurrentMap' = CurrentMap
               /\ maps' = maps
               /\ Cursor' = Cursor
          /\ screen \notin {<<"InGame">>, <<"MapMenu">>} =>
               /\ app_fields' = app_fields
               /\ CurrentMap' = CurrentMap
               /\ Animation' = Animation
      ]_Session

\* the main menu of a program started on a map file, with the map menu never
\* entered: 'h' has left the InGame screen
C31_Witness ==
    /\ map_file = TestFile
    /\ screen = <<"MainMenu", "StartGame">>
    /\ pc = "menu"
    /\ maps = <<>>
    /\ map_key = Stem
    /\ AnimationEmpty


---------------------------------------------------------------------------
(* The menus on their own: App::new() and the keys, with the directories
   the map menu may be entered in *)

\* the directory entries: two mazes, a maze followed by a space, a text
\* without an entry, a maze under another extension, a directory named like
\* a map, a map that cannot be read
Entries ==
    { File(Stem \o Extension, FALSE, TRUE, Maze(<<2222, 2134, 2222>>)),
      File(<<"l", "a", "b">> \o Extension, FALSE, TRUE, Maze(<<222, 214, 222>>)),
      File(<<"l", "a", "b">> \o Extension \o Extension, FALSE, TRUE,
           Append(Maze(<<222, 212, 222>>), SP)),
      File(<<"l", "a", "b">> \o Extension, FALSE, TRUE, Maze(<<222, 232, 222>>)),
      File(Stem \o <<".", "t", "x", "t">>, FALSE, TRUE, Maze(<<2222, 2134, 2222>>)),
      File(Stem \o Extension, TRUE, TRUE, <<>>),
      File(Stem \o Extension, FALSE, FALSE, <<>>) }

\* the most entries in a directory
MaxEntries == 2

\* the directories: up to MaxEntries entries with different names
Directories ==
    { dir \in SeqsUpTo(Entries, MaxEntries) :
        \A i, j \in 1..Len(dir) : dir[i].name = dir[j].name => i = j }

\* App::new(), about to be drawn
InitMenu ==
    /\ map_file = NoFile
    /\ contents = <<>>
    /\ verdict = "pending"
    /\ pc = "menu"
    /\ stack = <<>>
    /\ initial_path = <<>>
    /\ steps = <<>>
    /\ current_index = 0
    /\ current_path = <<>>
    /\ elapsed = 0
    /\ fired = 0
    /\ exit = FALSE
    /\ screen = <<"MainMenu", "StartGame">>
    /\ map_key = DefaultMap.key
    /\ map_data = DefaultMap.data
    /\ maps = <<>>
    /\ viewport_map = <<>>
    /\ viewport_offset = 0
    /\ viewport_height = 0
    /\ NoTransform

\* 'l' read, whatever the directory holds
KeyLDir == \E dir \in Directories : Key("l", dir)

NextMenu ==
    \/ DrawMenu
    \/ HandleEventsMenu
    \/ KeyQ
    \/ KeyJ
    \/ KeyK
    \/ KeyLDir
    \/ KeyH

SpecMenu == InitMenu /\ [][NextMenu]_vars

\* the entries of dir that fetch_files is to list: regular files named
\* *.labmap whose trimmed contents the validator accepts
Listed(dir) ==
    { i \in 1..Len(dir) :
        /\ ~dir[i].is_dir
        /\ EndsWith(dir[i].name, Extension)
        /\ parse_file_contents(Trim(dir[i].contents)) }

\* the i-th smallest element of a set of numbers
Nth(S, i) == CHOOSE n \in S : Cardinality({ m \in S : m < n }) = i - 1

\* the name of a map made from a file: the file name up to its last
\* ".labmap"
NameOf(file) ==
    SubSeq(file.name, 1,
           Max({ n \in 0..(Len(file.name) - Len(Extension)) :
                   SubSeq(file.name, n + 1, n + Len(Extension)) = Extension }))

\* C32: 'l' on OptionsMenu(Map), when it does not fail on an unreadable
\* file, leaves the map menu with a list built from nothing but the
\* directory: the default map first, then one map per listed file in
\* directory order, named after the file and holding its lines, files that
\* fail validation left out; the cursor is the default map and the offset 0.
\* The list before the key has no part in it.  Stated of what the key does
\* in every state in which it can be read on that screen
C32_MenuRebuilt ==
    (screen = <<"OptionsMenu", "Map">> /\ pc = "menu_events") =>
      \A dir \in Directories :
        LET after == handle_events(TheApp, "l", dir) IN
          after.ok =>
            /\ after.app.screen = <<"MapMenu">>
            /\ Len(after.app.maps) = 1 + Cardinality(Listed(dir))
            /\ after.app.maps[1] = [key |-> <<"D", "e", "f", "a", "u", "l", "t">>,
                                    data |-> Lines(DEFAULT_MAP)]
            /\ \A i \in 1..Cardinality(Listed(dir)) :
                 LET file == dir[Nth(Listed(dir), i)] IN
                   /\ after.app.maps[i + 1].key = NameOf(file)
                   /\ after.app.maps[i + 1].data = Lines(file.contents)
            /\ after.app.viewport_map = <<after.app.maps[1]>>
            /\ after.app.viewport_offset = 0

\* the map menu entered again after a map of an earlier directory was
\* selected: the list holds the default map and the one maze of the
\* directory read now
C32_Witness ==
    /\ screen = <<"MapMenu">>
    /\ pc = "menu_events"
    /\ Len(maps) = 2
    /\ maps[2].key = Stem
    /\ map_key = <<"l", "a", "b">>
    /\ viewport_offset = 0


---------------------------------------------------------------------------
(* The map menu in a terminal that is not resized *)

\* the tallest list area
MaxHeight == 3

\* the map menu just entered from App::new() and drawn once: the list is
\* what fetch_files made of the directory, the cursor is on the default map
InitMapMenu ==
    /\ map_file = NoFile
    /\ contents = <<>>
    /\ verdict = "pending"
    /\ pc = "menu_events"
    /\ stack = <<>>
    /\ initial_path = <<>>
    /\ steps = <<>>
    /\ current_index = 0
    /\ current_path = <<>>
    /\ elapsed = 0
    /\ fired = 0
    /\ exit = FALSE
    /\ screen = <<"MapMenu">>
    /\ map_key = DefaultMap.key
    /\ map_data = DefaultMap.data
    /\ \E dir \in Directories :
         /\ fetch_files(<<AsMap(DefaultMap)>>, dir).ok
         /\ maps = fetch_files(<<AsMap(DefaultMap)>>, dir).maps
    /\ viewport_map = <<AsMap(DefaultMap)>>
    /\ viewport_offset = 0
    /\ viewport_height \in 1..MaxHeight
    /\ NoTransform

\* ui::map_menu in a terminal of the size it had at the last draw: the
\* height stored is the height already there
DrawMapMenuAgain ==
    /\ pc = "menu"
    /\ screen = <<"MapMenu">>
    /\ pc' = IF viewport_map = <<>> /\ Window(TheApp) # <<>> THEN "error" ELSE "menu_events"
    /\ UNCHANGED <<map_file, app_fields, transform_io, contents, verdict, map_data, stack,
                   initial_path, steps, current_index, current_path, elapsed, fired>>

NextMapMenu ==
    \/ DrawMapMenuAgain
    \/ HandleEventsMenu
    \/ KeyJ
    \/ KeyK

SpecMapMenu == InitMapMenu /\ [][NextMapMenu]_vars

\* the maps of the list are pairwise distinct
DistinctMaps == \A i, j \in 1..Len(maps) : maps[i] = maps[j] => i = j

\* the places of the cursor map in the list, counted from 0
CursorIndex == { i \in 0..(Len(maps) - 1) : viewport_map = <<maps[i + 1]>> }

\* C33: in the map menu, with the height of the list area fixed and at least
\* 1 and the maps pairwise distinct, after any presses of 'j' and 'k' the
\* cursor map is a map of the list, its index is at least viewport_offset
\* and below viewport_offset + viewport_height, and viewport_offset is
\* between 0 and the length of the list less one; 'j' with the cursor on the
\* last map and 'k' with the cursor on the first map leave the cursor and
\* the offset as they were
C33_CursorInWindow ==
    /\ []((screen = <<"MapMenu">> /\ viewport_height >= 1 /\ DistinctMaps) =>
            /\ CursorIndex # {}
            /\ \A i \in CursorIndex :
                 viewport_offset <= i /\ i < viewport_offset + viewport_height
            /\ viewport_offset >= 0
            /\ viewport_offset <= Len(maps) - 1)
    /\ [][ (screen = <<"MapMenu">> /\ viewport_height >= 1 /\ DistinctMaps) =>
             /\ (KeyJ /\ viewport_map = <<Last(maps)>>) => Cursor' = Cursor
             /\ (KeyK /\ viewport_map = <<Head(maps)>>) => Cursor' = Cursor
         ]_Session

\* the cursor has reached the last of three maps in a list area of height 2:
\* the window has scrolled by one
C33_Witness ==
    /\ screen = <<"MapMenu">>
    /\ pc = "menu"
    /\ Len(maps) = 3
    /\ viewport_height = 2
    /\ viewport_map = <<maps[3]>>
    /\ viewport_offset = 1


\* the items of the main menu and of the options menu, top to bottom
MenuItems ==
    << <<"MainMenu", "StartGame">>, <<"MainMenu", "Options">>, <<"MainMenu", "Quit">> >>
OptionItems == << <<"OptionsMenu", "Map">>, <<"OptionsMenu", "Back">> >>

\* the screen after moving down or up a list of items without wrapping
Down(items, scr) ==
    LET at == CHOOSE i \in 1..Len(items) : items[i] = scr IN
      IF at < Len(items) THEN items[at + 1] ELSE scr
Up(items, scr) ==
    LET at == CHOOSE i \in 1..Len(items) : items[i] = scr IN
      IF at > 1 THEN items[at - 1] ELSE scr

InList(items, scr) == \E i \in 1..Len(items) : items[i] = scr

\* C34: on the main menu and the options menu 'j' moves one item down and
\* 'k' one item up, without wrapping: on the last item 'j', and on the first
\* item 'k', leave the screen as it is; the screen stays on the same menu;
\* and on no screen does the handler of 'j' or 'k' change exit, the current
\* map or the animation (on the InGame screen the handlers change nothing,
\* and the pass goes on to the update it makes with or without a key)
C34_MenuCursor ==
    [][ /\ \A items \in {MenuItems, OptionItems} :
             InList(items, screen) =>
               /\ KeyJ => screen' = Down(items, screen)
               /\ KeyK => screen' = Up(items, screen)
        /\ (KeyJ \/ KeyK) =>
             /\ exit' = exit
             /\ CurrentMap' = CurrentMap
             /\ screen # <<"InGame">> => Animation' = Animation
        /\ (pc = "events" /\ screen = <<"InGame">>) =>
             /\ handle_j_events(TheApp) = Done(TheApp)
             /\ handle_k_events(TheApp) = Done(TheApp)
      ]_Session

\* 'j' has moved the main menu to its last item
C34_Witness ==
    /\ screen = <<"MainMenu", "Quit">>
    /\ pc = "menu"
    /\ ~exit


\* the screen 'l' selects from each screen of the table
Selected(scr) ==
    IF scr = <<"MainMenu", "StartGame">> THEN <<"InGame">>
    ELSE IF scr = <<"MainMenu", "Options">> THEN <<"OptionsMenu", "Map">>
    ELSE IF scr = <<"OptionsMenu", "Map">> THEN <<"MapMenu">>
    ELSE IF scr = <<"OptionsMenu", "Back">> THEN <<"MainMenu", "StartGame">>
    ELSE scr

\* C35: 'l' follows a fixed table: StartGame to InGame, Options to
\* OptionsMenu(Map), Quit sets exit and stays, OptionsMenu(Map) to MapMenu,
\* Back to MainMenu(StartGame), MapMenu stays and makes the cursor map the
\* current map, InGame changes no field of the App; so the screen becomes
\* InGame only by 'l' on MainMenu(StartGame) or at start-up with a map file
C35_SelectTable ==
    [][ /\ KeyL =>
             /\ screen' = Selected(screen)
             /\ exit' = (exit \/ screen = <<"MainMenu", "Quit">>)
             /\ screen = <<"MapMenu">> => CurrentMap' = <<viewport_map[1].key, viewport_map[1].data>>
             /\ screen # <<"MapMenu">> => CurrentMap' = CurrentMap
             /\ screen = <<"InGame">> => app_fields' = app_fields
        /\ (screen' = <<"InGame">> /\ screen # <<"InGame">>) =>
             \/ screen = <<"MainMenu", "StartGame">> /\ KeyL
             \/ pc = "start" /\ map_file.given
      ]_Session

\* the InGame screen entered from the main menu of a program started
\* without a map file, about to be drawn for the first time
C35_Witness ==
    /\ map_file = NoFile
    /\ screen = <<"InGame">>
    /\ pc = "draw"
    /\ steps = <<>>


\* C36: exit becomes true only in a pass that reads 'q', on any screen, or
\* reads 'l' on MainMenu(Quit); no handler, given an App with exit set,
\* returns it with exit false; and once exit is true the run loop takes no
\* further step: no draw, no event
C36_ExitFinal ==
    [][ /\ (exit' /\ ~exit) => (KeyQ \/ (KeyL /\ screen = <<"MainMenu", "Quit">>))
        /\ KeyQ => exit'
        /\ pc \in {"events", "menu_events"} =>
             \A key \in {"q", "j", "k", "l", "h"}, dir \in DirListings :
               handle_events([TheApp EXCEPT !.exit = TRUE], key, dir).app.exit
        /\ ~exit
      ]_Session

\* 'q' was read while the animation was playing: the loop has ended on the
\* InGame screen
C36_Witness ==
    /\ exit
    /\ pc = "exited"
    /\ screen = <<"InGame">>
    /\ current_index > 0


\* C37: once the App is built, the current map changes only in a pass that
\* reads 'l' on the MapMenu screen, and then it is the cursor map, a map of
\* the list; every other key on every screen, every draw and every tick of
\* the animation leaves its name and rows as they were; and the maps of the
\* list keep their names and rows: the list changes only when 'l' on
\* OptionsMenu(Map) builds it anew
C37_MapChanges ==
    [][ pc # "start" =>
          /\ CurrentMap' # CurrentMap =>
               /\ screen = <<"MapMenu">>
               /\ KeyL
               /\ viewport_map = <<[key |-> map_key', data |-> map_data']>>
               /\ \E i \in 1..Len(maps) : maps[i] = [key |-> map_key', data |-> map_data']
          /\ maps' # maps => (screen = <<"OptionsMenu", "Map">> /\ KeyL)
      ]_Session

\* a program started on a map file whose current map is now the default
\* map, selected in the map menu
C37_Witness ==
    /\ map_file = TestFile
    /\ map_key = DefaultMap.key
    /\ screen = <<"MapMenu">>
    /\ pc = "menu"


\* App::new() has installed Map::default()
DefaultInstalled == pc = "menu" /\ ~map_file.given

\* C38: the built-in default map, made by Map::new without the validator,
\* is named "Default", has 21 rows, and keeps every rule of the maze format:
\* its rows joined by newlines are accepted by parse_file_contents, and they
\* are at least 3 by 3, of one width, of maze bytes only, with one Entry, a
\* border of Wall and Exit only and no Exit inside
C38_DefaultMapValid ==
    DefaultInstalled =>
      /\ map_key = <<"D", "e", "f", "a", "u", "l", "t">>
      /\ Len(map_data) = 21
      /\ parse_file_contents(Join(map_data))
      /\ FormatRules(map_data)

\* the App built without a map file holds the default map: 31 columns, an
\* Exit at the end of its last row but one
C38_Witness ==
    /\ DefaultInstalled
    /\ screen = <<"MainMenu", "StartGame">>
    /\ Len(map_data[1]) = 31
    /\ Last(map_data[20]) = "4"

=============================================================================
